---- MODULE Spec2Model ----
(***************************************************************************)
(* ShowAdvance (src/app.py, src/init_db.py): the form store, the history   *)
(* log, the access resolver and the presence / sync poller, as a state     *)
(* machine over the SQLite database and the Flask sessions.                *)
(*                                                                         *)
(* Conventions                                                             *)
(*  - db is the committed database: one field per table.  A key/value      *)
(*    table is a bag of rows (no row id is modelled, so a bag is what      *)
(*    keeps two equal rows apart); form_history is a set of rows with      *)
(*    their AUTOINCREMENT id.                                              *)
(*  - CURRENT_TIMESTAMP has a resolution of one second: it is the value of *)
(*    the clock now, a natural number; several requests can run within the *)
(*    same second.  Timestamps are compared as numbers (the code compares  *)
(*    the 'YYYY-MM-DD HH:MM:SS' texts, which is the same order).           *)
(*  - a write transaction of a handler (first DML statement to commit) is  *)
(*    applied by the operator <handler>_txn; the sequential specifications *)
(*    run check and transaction as one step, SpecConc runs the statements  *)
(*    of concurrent requests one at a time.                                *)
(***************************************************************************)
EXTENDS Integers, Sequences, FiniteSets, Bags, TLC

VARIABLES
    db,         \* the committed database (record of tables)
    session,    \* the Flask session of each user (one browser per user)
    now,        \* the clock, in seconds
    resp,       \* the response of the last request to a show endpoint
    last_write, \* history variable: per show, the last committed form write
    hist_log,   \* history variable: every form_history row ever inserted
    procs,      \* SpecConc: the requests in flight
    wtx,        \* SpecConc: the open write transaction (SQLite write lock)
    client_since \* per user, the cursor the page keeps: the since of the last poll

vars == <<db, session, now, resp, last_write, hist_log, procs, wtx,
          client_since>>

----------------------------------------------------------------------------
(* Values *)

NULL == "NULL"            \* SQL NULL / Python None in an id or text column
NoTime == -1              \* SQL NULL in a TIMESTAMP column
EmptySince == NoTime      \* the query parameter since='' (first poll)

ADMIN == "admin"          \* the account init_db seeds, role 'admin'
Users == {"admin", "A", "B"}
Groups == {"g1", "g2"}
GroupTypes == {"all_access", "admin_group", "restricted"}
FormTypes == {"advance", "schedule", "postnotes"}

HistoryLimit == 50        \* LIMIT 50 of the prune statement

\* JSON values of a request body: a string, or null.
JStr(s) == [t |-> "str", v |-> s]
JNull == [t |-> "null", v |-> ""]

\* str(value) if value is not None else ''
StrOrEmpty(j) == IF j.t = "null" THEN "" ELSE j.v

\* val or ''   (None and '' are both falsy)
ValOrEmpty(j) == IF j.t = "null" \/ j.v = "" THEN "" ELSE j.v

\* Python truthiness of a JSON value
Truthy(j) == j.t # "null" /\ j.v # ""

\* value or None
ValOrNone(j) == IF Truthy(j) THEN j.v ELSE NULL

\* a != b in SQL: NULL (not true) as soon as one side is NULL
SqlNe(a, b) == a # NULL /\ b # NULL /\ a # b

Max(S) == CHOOSE x \in S : \A y \in S : y <= x

----------------------------------------------------------------------------
(* Access resolver *)

\* the group_type of each group the user is a member of, one per membership
_get_user_group_types(d, user_id) ==
    LET mine == {m \in d.user_group_members : m[1] = user_id}
    IN  [m \in mine |-> d.user_groups[m[2]]]

GroupTypesOf(d, user_id) ==
    LET gt == _get_user_group_types(d, user_id)
    IN  {gt[m] : m \in DOMAIN gt}

\* the result of get_accessible_shows: None (all shows), or a list of ids
ALL == [all |-> TRUE, shows |-> {}]
Only(S) == [all |-> FALSE, shows |-> S]

\* mutant: all() where the code has any(): one all_access group among
\* restricted ones no longer opens every show
get_accessible_shows_all_groups(d, user_id) ==
    IF user_id \notin DOMAIN d.users \/ d.users[user_id].role = "admin"
    THEN ALL
    ELSE LET group_types == _get_user_group_types(d, user_id)
         IN  IF \A m \in DOMAIN group_types :
                   group_types[m] \in {"all_access", "admin_group"}
             THEN ALL
             ELSE Only({sga[1] : sga \in
                     {x \in d.show_group_access :
                        \E ugm \in d.user_group_members :
                           ugm[2] = x[2] /\ ugm[1] = user_id}})

get_accessible_shows(d, user_id) ==
    IF user_id \notin DOMAIN d.users \/ d.users[user_id].role = "admin"
    THEN ALL
    ELSE LET group_types == _get_user_group_types(d, user_id)
         IN  IF DOMAIN group_types = {}
                \/ \E m \in DOMAIN group_types :
                      group_types[m] \in {"all_access", "admin_group"}
             THEN ALL
             ELSE Only({sga[1] : sga \in
                     {x \in d.show_group_access :
                        \E ugm \in d.user_group_members :
                           ugm[2] = x[2] /\ ugm[1] = user_id}})

can_access_show(d, user_id, show_id) ==
    LET accessible == get_accessible_shows(d, user_id)
    IN  IF accessible.all THEN TRUE ELSE show_id \in accessible.shows

is_restricted_user(d, user_id) ==
    IF user_id \notin DOMAIN d.users \/ d.users[user_id].role = "admin"
    THEN FALSE
    ELSE LET group_types == _get_user_group_types(d, user_id)
         IN  IF DOMAIN group_types = {} THEN FALSE
             ELSE \A m \in DOMAIN group_types : group_types[m] = "restricted"

is_content_admin(d, user_id) ==
    IF user_id \notin DOMAIN d.users THEN FALSE
    ELSE IF d.users[user_id].role = "admin" THEN TRUE
    ELSE "admin_group" \in GroupTypesOf(d, user_id)

----------------------------------------------------------------------------
(* Tables *)

\* a row of advance_data
AdvRow(s, k, v, t) ==
    [show_id |-> s, field_key |-> k, field_value |-> v, updated_at |-> t]

\* a row of schedule_meta or post_show_notes (no updated_at column)
KVRow(s, k, v) == [show_id |-> s, field_key |-> k, field_value |-> v]

\* INSERT without conflict handling (a row is appended whatever exists)
InsertAppend(tbl, row) == tbl (+) SetToBag({row})

\* INSERT OR REPLACE under UNIQUE(show_id, field_key): the rows that conflict
\* are deleted, then the row is inserted
InsertOrReplace(tbl, row) ==
    LET keep == {r \in DOMAIN tbl :
                    ~(r.show_id = row.show_id /\ r.field_key = row.field_key)}
    IN  [r \in keep |-> tbl[r]] (+) SetToBag({row})

\* one INSERT OR REPLACE per row of rows (their keys are distinct: a dict)
RECURSIVE InsertOrReplaceAll(_, _)
InsertOrReplaceAll(tbl, rows) ==
    IF rows = {} THEN tbl
    ELSE LET r == CHOOSE x \in rows : TRUE
         IN  InsertOrReplaceAll(InsertOrReplace(tbl, r), rows \ {r})

\* DELETE FROM tbl WHERE show_id = s
DeleteShowRows(tbl, s) ==
    [r \in {x \in DOMAIN tbl : x.show_id # s} |-> tbl[r]]

\* number of rows of a bag table that satisfy (show_id, field_key) = (s, k)
RowCount(tbl, s, k) ==
    BagCardinality([r \in {x \in DOMAIN tbl :
                              x.show_id = s /\ x.field_key = k} |-> tbl[r]])

\* SELECT field_key, field_value ... as a dict (a later row wins; rows of one
\* key are unique in every state the code reaches)
AsDict(tbl, s) ==
    LET rows == {r \in DOMAIN tbl : r.show_id = s}
    IN  [k \in {r.field_key : r \in rows} |->
            (CHOOSE r \in rows : r.field_key = k).field_value]

\* UPDATE shows SET <col> = v WHERE id = s   (no row: nothing happens)
SetShowCol(shows, s, col, v) ==
    IF s \in DOMAIN shows THEN [shows EXCEPT ![s][col] = v] ELSE shows

\* the stamp with the user left out: only last_saved_at is set
StampShow_at_only(shows, s, user_id, t) ==
    SetShowCol(shows, s, "last_saved_at", t)

\* UPDATE shows SET last_saved_by=?, last_saved_at=CURRENT_TIMESTAMP WHERE id=?
StampShow(shows, s, user_id, t) ==
    SetShowCol(SetShowCol(shows, s, "last_saved_by", user_id),
               s, "last_saved_at", t)

----------------------------------------------------------------------------
(* History log *)

HistRows(d, s, ft) ==
    {h \in d.form_history : h.show_id = s /\ h.form_type = ft}

\* the subsets of S with k elements
RECURSIVE KSubsets(_, _)
KSubsets(S, k) ==
    IF k = 0 THEN {{}}
    ELSE IF Cardinality(S) < k THEN {}
    ELSE LET x == CHOOSE y \in S : TRUE
         IN  {T \cup {x} : T \in KSubsets(S \ {x}, k - 1)}
                \cup KSubsets(S \ {x}, k)

\* the statement with ORDER BY saved_at ASC: the n oldest rows
TopBySavedAt_oldest(rows, n) ==
    IF Cardinality(rows) <= n THEN {rows}
    ELSE LET older(h) == {x \in rows : x.saved_at < h.saved_at}
             edge  == CHOOSE h \in rows :
                         /\ Cardinality(older(h)) < n
                         /\ Cardinality({x \in rows : x.saved_at <= h.saved_at}) >= n
             below == older(edge)
             ties  == {x \in rows : x.saved_at = edge.saved_at}
         IN  {below \cup T : T \in KSubsets(ties, n - Cardinality(below))}

\* SELECT id ... ORDER BY saved_at DESC LIMIT n: every id set the statement
\* can return.  Rows of equal saved_at are in no specified order, so any of
\* them may fill the last places.
TopBySavedAt(rows, n) ==
    IF Cardinality(rows) <= n THEN {rows}
    ELSE LET newer(h) == {x \in rows : x.saved_at > h.saved_at}
             \* the saved_at at which the limit is reached
             edge  == CHOOSE h \in rows :
                         /\ Cardinality(newer(h)) < n
                         /\ Cardinality({x \in rows : x.saved_at >= h.saved_at}) >= n
             above == newer(edge)
             ties  == {x \in rows : x.saved_at = edge.saved_at}
         IN  {above \cup T : T \in KSubsets(ties, n - Cardinality(above))}

\* the INSERT alone, without the DELETE that prunes
_snapshot_form_history_no_prune(d, show_id, form_type, user_id, snapshot_data, t) ==
    {[d EXCEPT !.hist_seq = d.hist_seq + 1,
               !.form_history = d.form_history \cup
                  {[id |-> d.hist_seq + 1, show_id |-> show_id,
                    form_type |-> form_type, saved_by |-> user_id,
                    saved_at |-> t, snapshot |-> snapshot_data]}]}

\* the prune with the show alone in its WHERE clauses: the newest 50 entries
\* of the show are kept, whatever their form type
_snapshot_form_history_any_form(d, show_id, form_type, user_id, snapshot_data, t) ==
    LET row == [id |-> d.hist_seq + 1, show_id |-> show_id,
                form_type |-> form_type, saved_by |-> user_id,
                saved_at |-> t, snapshot |-> snapshot_data]
        ins  == d.form_history \cup {row}
        mine == {h \in ins : h.show_id = show_id}
    IN  {[d EXCEPT !.hist_seq = d.hist_seq + 1,
                   !.form_history = (ins \ mine) \cup keep] :
            keep \in TopBySavedAt(mine, HistoryLimit)}

\* INSERT INTO form_history ...; DELETE ... WHERE id NOT IN (... LIMIT 50):
\* the set of tables the two statements can leave
_snapshot_form_history(d, show_id, form_type, user_id, snapshot_data, t) ==
    LET row == [id |-> d.hist_seq + 1, show_id |-> show_id,
                form_type |-> form_type, saved_by |-> user_id,
                saved_at |-> t, snapshot |-> snapshot_data]
        ins  == d.form_history \cup {row}
        mine == {h \in ins : h.show_id = show_id /\ h.form_type = form_type}
    IN  {[d EXCEPT !.hist_seq = d.hist_seq + 1,
                   !.form_history = (ins \ mine) \cup keep] :
            keep \in TopBySavedAt(mine, HistoryLimit)}

\* the sequences that hold every element of S once
RECURSIVE Perms(_)
Perms(S) ==
    IF S = {} THEN {<<>>}
    ELSE UNION {{<<x>> \o rest : rest \in Perms(S \ {x})} : x \in S}

\* the sequences that hold every row of rows with lo <= saved_at <= hi once,
\* in an order ORDER BY saved_at DESC allows (rows of equal saved_at come in
\* any order)
RECURSIVE BySavedAtDesc(_, _, _)
BySavedAtDesc(rows, hi, lo) ==
    IF hi < lo THEN {<<>>}
    ELSE LET same == {h \in rows : h.saved_at = hi}
             rest == BySavedAtDesc(rows, hi - 1, lo)
         IN  IF same = {} THEN rest
             ELSE {p \o q : p \in Perms(same), q \in rest}

\* what form_history_list reports of a row
HistEntry(h) ==
    [id |-> h.id, saved_at |-> h.saved_at, form_type |-> h.form_type,
     saved_by |-> h.saved_by]

\* SELECT ... WHERE show_id = ? AND form_type = ? ORDER BY saved_at DESC
\* LIMIT 50: every list the statement can return
form_history_list(d, show_id, form_type) ==
    LET rows == HistRows(d, show_id, form_type)
        at == {h.saved_at : h \in rows}
        hi == IF at = {} THEN 0 ELSE Max(at)
    IN  UNION {{[i \in DOMAIN q |-> HistEntry(q[i])] :
                   q \in BySavedAtDesc(keep, hi, 0)} :
                 keep \in TopBySavedAt(rows, HistoryLimit)}

----------------------------------------------------------------------------
(* Form store: the write transaction of each handler.  Each operator gives   *)
(* the set of databases the statements between get_db() and db.commit() can  *)
(* leave, run on database d by user_id at second t.                          *)

\* a JSON value bound to a TEXT column as it is (None becomes NULL)
JRaw(j) == IF j.t = "null" THEN NULL ELSE j.v

\* "Sync core show fields": one UPDATE per core key the payload carries
MirrorCore(shows, show_id, data) ==
    LET s1 == IF "show_name" \in DOMAIN data /\ Truthy(data["show_name"])
              THEN SetShowCol(shows, show_id, "name", data["show_name"].v)
              ELSE shows
        s2 == IF "show_date" \in DOMAIN data
              THEN SetShowCol(s1, show_id, "show_date", ValOrNone(data["show_date"]))
              ELSE s1
        s3 == IF "show_time" \in DOMAIN data
              THEN SetShowCol(s2, show_id, "show_time", JRaw(data["show_time"]))
              ELSE s2
    IN  IF "venue" \in DOMAIN data
        THEN SetShowCol(s3, show_id, "venue", JRaw(data["venue"]))
        ELSE s3

save_advance_txn(d, user_id, show_id, data, t) ==
    LET adv == InsertOrReplaceAll(d.advance_data,
                   {AdvRow(show_id, k, StrOrEmpty(data[k]), t) : k \in DOMAIN data})
        d1 == [d EXCEPT !.advance_data = adv,
                        !.shows = StampShow(MirrorCore(d.shows, show_id, data),
                                            show_id, user_id, t)]
    IN  _snapshot_form_history(d1, show_id, "advance", user_id,
                               [advance_data |-> data], t)

\* row.get(k, '')
RowGet(row, k) == IF k \in DOMAIN row THEN row[k] ELSE ""

\* a row of schedule_rows
SchedRow(s, i, row) ==
    [show_id |-> s, sort_order |-> i,
     start_time |-> RowGet(row, "start_time"), end_time |-> RowGet(row, "end_time"),
     description |-> RowGet(row, "description"), notes |-> RowGet(row, "notes")]

\* the INSERTs without the DELETE before them
ReplaceScheduleRows_no_delete(tbl, s, rows) ==
    tbl (+) SetToBag({SchedRow(s, i - 1, rows[i]) : i \in DOMAIN rows})

\* DELETE FROM schedule_rows WHERE show_id = ?, then one INSERT per entry of
\* rows with sort_order = its 0-based index
ReplaceScheduleRows(tbl, s, rows) ==
    DeleteShowRows(tbl, s)
        (+) SetToBag({SchedRow(s, i - 1, rows[i]) : i \in DOMAIN rows})

\* the meta and rows parts of a schedule payload (a live save or a snapshot)
ApplySchedule(d, show_id, data) ==
    LET meta == IF "meta" \in DOMAIN data
                THEN InsertOrReplaceAll(d.schedule_meta,
                         {KVRow(show_id, k, ValOrEmpty(data["meta"][k])) :
                              k \in DOMAIN data["meta"]})
                ELSE d.schedule_meta
        rows == IF "rows" \in DOMAIN data
                THEN ReplaceScheduleRows(d.schedule_rows, show_id, data["rows"])
                ELSE d.schedule_rows
    IN  [d EXCEPT !.schedule_meta = meta, !.schedule_rows = rows]

save_schedule_txn(d, user_id, show_id, data, t) ==
    LET d1 == ApplySchedule(d, show_id, data)
        d2 == [d1 EXCEPT !.shows = StampShow(d1.shows, show_id, user_id, t)]
    IN  _snapshot_form_history(d2, show_id, "schedule", user_id, data, t)

save_postnotes_txn(d, user_id, show_id, data, t) ==
    LET notes == InsertOrReplaceAll(d.post_show_notes,
                     {KVRow(show_id, k, ValOrEmpty(data[k])) : k \in DOMAIN data})
        d1 == [d EXCEPT !.post_show_notes = notes,
                        !.shows = StampShow(d.shows, show_id, user_id, t)]
    IN  _snapshot_form_history(d1, show_id, "postnotes", user_id,
                               [notes_data |-> data], t)

\* snapshot.get(k, {})
SnapGet(snapshot, k) == IF k \in DOMAIN snapshot THEN snapshot[k] ELSE <<>>

\* the restore with the replay left out: only the stamp is written
restore_history_txn_stamp_only(d, user_id, show_id, entry, t) ==
    {[d EXCEPT !.shows = StampShow(d.shows, show_id, user_id, t)]}

\* the restore as a save would end: stamp, then a snapshot of the replayed
\* payload
restore_history_txn_snapshot(d, user_id, show_id, entry, t) ==
    UNION {_snapshot_form_history(d2, show_id, entry.form_type, user_id,
                                  entry.snapshot, t) :
              d2 \in restore_history_txn_stamp_only(d, user_id, show_id, entry, t)}

\* restore_history after the entry was found: replay by form type, then the
\* stamp; no statement touches form_history
restore_history_txn(d, user_id, show_id, entry, t) ==
    LET snapshot == entry.snapshot
        d1 == CASE entry.form_type = "advance" ->
                     LET adv == SnapGet(snapshot, "advance_data")
                     IN  [d EXCEPT !.advance_data =
                            InsertOrReplaceAll(d.advance_data,
                               {AdvRow(show_id, k, StrOrEmpty(adv[k]), t) :
                                    k \in DOMAIN adv})]
                [] entry.form_type = "schedule" ->
                     ApplySchedule(d, show_id, snapshot)
                [] entry.form_type = "postnotes" ->
                     LET notes == SnapGet(snapshot, "notes_data")
                     IN  [d EXCEPT !.post_show_notes =
                            InsertOrReplaceAll(d.post_show_notes,
                               {KVRow(show_id, k, ValOrEmpty(notes[k])) :
                                    k \in DOMAIN notes})]
                [] OTHER -> d
    IN  {[d1 EXCEPT !.shows = StampShow(d1.shows, show_id, user_id, t)]}

----------------------------------------------------------------------------
(* Shows and performances *)

\* the calendar days the model uses, in order ('YYYY-MM-DD' texts compare
\* in this order)
Calendar == <<"2026-01-01", "2026-01-02">>
Dates == {Calendar[i] : i \in DOMAIN Calendar}
DayOf(date) == CHOOSE i \in DOMAIN Calendar : Calendar[i] = date

\* v or ''  for a column value that may be NULL
TextOrEmpty(v) == IF v = NULL THEN "" ELSE v

\* INSERT INTO shows ...; one advance_data row per non-empty core value;
\* one show_performances row when a date is given
new_show_txn(d, user_id, name, show_date, show_time, venue, t) ==
    LET show_id == d.show_seq + 1
        row == [name |-> name, show_date |-> show_date, show_time |-> show_time,
                venue |-> venue, status |-> "active",
                last_saved_by |-> NULL, last_saved_at |-> NoTime]
        core == [show_name |-> name, show_date |-> TextOrEmpty(show_date),
                 show_time |-> show_time, venue |-> venue]
        adv == InsertOrReplaceAll(d.advance_data,
                   {AdvRow(show_id, k, core[k], t) :
                        k \in {x \in DOMAIN core : core[x] # ""}})
        perf == IF show_date # NULL
                THEN {[id |-> d.perf_seq + 1, show_id |-> show_id,
                       perf_date |-> show_date, perf_time |-> show_time]}
                ELSE {}
    IN  [d EXCEPT !.show_seq = show_id,
                  !.shows = (show_id :> row) @@ d.shows,
                  !.advance_data = adv,
                  !.perf_seq = d.perf_seq + Cardinality(perf),
                  !.show_performances = d.show_performances \cup perf]

\* ORDER BY CASE WHEN perf_date IS NULL THEN 1 ELSE 0 END, perf_date, id
PerfBefore(a, b) ==
    \/ a.perf_date # NULL /\ b.perf_date = NULL
    \/ /\ a.perf_date # NULL /\ b.perf_date # NULL
       /\ DayOf(a.perf_date) < DayOf(b.perf_date)
    \/ a.perf_date = b.perf_date /\ a.id < b.id

_sync_show_primary_date(d, show_id, t) ==
    LET mine == {p \in d.show_performances : p.show_id = show_id}
    IN  IF mine # {}
        THEN LET first == CHOOSE p \in mine :
                              \A q \in mine \ {p} : PerfBefore(p, q)
             IN  [d EXCEPT
                    !.shows = SetShowCol(SetShowCol(d.shows, show_id,
                                  "show_date", first.perf_date),
                                  show_id, "show_time", first.perf_time),
                    !.advance_data = InsertOrReplaceAll(d.advance_data,
                        {AdvRow(show_id, "show_date", TextOrEmpty(first.perf_date), t),
                         AdvRow(show_id, "show_time", TextOrEmpty(first.perf_time), t)})]
        ELSE [d EXCEPT !.shows = SetShowCol(SetShowCol(d.shows, show_id,
                                     "show_date", NULL), show_id, "show_time", "")]

add_performance_txn(d, show_id, perf_date, perf_time, t) ==
    LET d1 == [d EXCEPT !.perf_seq = d.perf_seq + 1,
                        !.show_performances = d.show_performances \cup
                            {[id |-> d.perf_seq + 1, show_id |-> show_id,
                              perf_date |-> perf_date, perf_time |-> perf_time]}]
    IN  _sync_show_primary_date(d1, show_id, t)

\* UPDATE show_performances SET perf_date=?, perf_time=? WHERE id=?
update_performance_txn(d, show_id, perf_id, perf_date, perf_time, t) ==
    _sync_show_primary_date(
        [d EXCEPT !.show_performances =
            {IF p.id = perf_id
             THEN [p EXCEPT !.perf_date = perf_date, !.perf_time = perf_time]
             ELSE p : p \in d.show_performances}],
        show_id, t)

delete_performance_txn(d, show_id, perf_id, t) ==
    _sync_show_primary_date(
        [d EXCEPT !.show_performances = {p \in d.show_performances : p.id # perf_id}],
        show_id, t)

----------------------------------------------------------------------------
(* Presence and sync *)

PresenceTTL == 60     \* rows idle for more than 60 s are deleted
VisibleTTL == 45      \* rows seen within the last 45 s are reported

\* the upsert without the prune after it
_upsert_active_session_no_prune(d, user_id, show_id, tab, focused_field, t) ==
    LET others == {r \in DOMAIN d.active_sessions :
                      ~(r.user_id = user_id /\ r.show_id = show_id)}
        row == [user_id |-> user_id, show_id |-> show_id, tab |-> tab,
                focused_field |-> focused_field, last_seen |-> t]
    IN  [d EXCEPT !.active_sessions =
            [r \in others |-> d.active_sessions[r]] (+) SetToBag({row})]

\* the SELECT of the other users with a window of 60 instead of 45 seconds
_get_other_active_users_stored(d, user_id, show_id, t) ==
    {[user |-> r.user_id, tab |-> r.tab, focused_field |-> r.focused_field] :
        r \in {x \in DOMAIN d.active_sessions :
                  /\ x.show_id = show_id
                  /\ x.user_id # user_id
                  /\ x.user_id \in DOMAIN d.users
                  /\ x.last_seen > t - PresenceTTL}}

_upsert_active_session(d, user_id, show_id, tab, focused_field, t) ==
    LET others == {r \in DOMAIN d.active_sessions :
                      ~(r.user_id = user_id /\ r.show_id = show_id)}
        row == [user_id |-> user_id, show_id |-> show_id, tab |-> tab,
                focused_field |-> focused_field, last_seen |-> t]
        ups == [r \in others |-> d.active_sessions[r]] (+) SetToBag({row})
    IN  [d EXCEPT !.active_sessions =
            [r \in {x \in DOMAIN ups : ~(x.last_seen < t - PresenceTTL)} |-> ups[r]]]

\* the users are reported by display name and initials; the model reports
\* the user id they are computed from
_get_other_active_users(d, user_id, show_id, t) ==
    {[user |-> r.user_id, tab |-> r.tab, focused_field |-> r.focused_field] :
        r \in {x \in DOMAIN d.active_sessions :
                  /\ x.show_id = show_id
                  /\ x.user_id # user_id
                  /\ x.user_id \in DOMAIN d.users
                  /\ x.last_seen > t - VisibleTTL}}

\* request.args.get('field') or None
OrNone(v) == IF v = "" THEN NULL ELSE v

\* (SELECT last_saved_by FROM shows WHERE id = ?): NULL when no such show
LastSavedBy(d, show_id) ==
    IF show_id \in DOMAIN d.shows THEN d.shows[show_id].last_saved_by ELSE NULL

\* the first SELECT without its last_saved_by condition
ChangedFields_no_filter(d, user_id, show_id, since) ==
    IF since # EmptySince
    THEN LET rows == {r \in DOMAIN d.advance_data :
                         r.show_id = show_id /\ r.updated_at > since}
         IN  [k \in {r.field_key : r \in rows} |->
                 (CHOOSE r \in rows : r.field_key = k).field_value]
    ELSE <<>>

\* the first SELECT of sync_advance, as the dict the response carries
ChangedFields(d, user_id, show_id, since) ==
    IF since # EmptySince
    THEN LET rows == {r \in DOMAIN d.advance_data :
                         /\ r.show_id = show_id
                         /\ r.updated_at > since
                         /\ SqlNe(LastSavedBy(d, show_id), user_id)}
         IN  [k \in {r.field_key : r \in rows} |->
                 (CHOOSE r \in rows : r.field_key = k).field_value]
    ELSE <<>>

\* the second SELECT with MIN in the place of MAX
NewSince_min(d, show_id, since) ==
    LET ts == {r.updated_at : r \in {x \in DOMAIN d.advance_data : x.show_id = show_id}}
    IN  IF ts # {} THEN CHOOSE t \in ts : \A x \in ts : t <= x ELSE since

\* the second SELECT: MAX(updated_at), or the since that was passed
NewSince(d, show_id, since) ==
    LET ts == {r.updated_at : r \in {x \in DOMAIN d.advance_data : x.show_id = show_id}}
    IN  IF ts # {} THEN Max(ts) ELSE since

----------------------------------------------------------------------------
(* Initial states *)

LoggedOut == [logged_in |-> FALSE, user_role |-> "user",
              is_restricted |-> FALSE, is_content_admin |-> FALSE]

\* _login_route: what a successful login stores in the session
LoginSession(d, u) ==
    [logged_in |-> TRUE, user_role |-> d.users[u].role,
     is_restricted |-> is_restricted_user(d, u),
     is_content_admin |-> is_content_admin(d, u)]

\* what hist_log keeps of a form_history row
LogRow(h) == [id |-> h.id, show_id |-> h.show_id,
              form_type |-> h.form_type, saved_at |-> h.saved_at]

NoWrite == [op |-> "none", user |-> NULL, at |-> NoTime, data |-> <<>>]
NoResp == [op |-> "none", user |-> NULL, show |-> 0, status |-> 0, body |-> <<>>]
NoTx == [owners |-> {}, db |-> <<>>]

\* the database init_db and migrate_db create, with the accounts A and B the
\* admin has added: no show, no group, no history
EmptyDb ==
    [users |-> [u \in Users |-> [role |-> IF u = ADMIN THEN "admin" ELSE "user"]],
     user_groups |-> <<>>,
     user_group_members |-> {},
     show_group_access |-> {},
     shows |-> <<>>,
     show_seq |-> 0,
     advance_data |-> EmptyBag,
     schedule_meta |-> EmptyBag,
     post_show_notes |-> EmptyBag,
     schedule_rows |-> EmptyBag,
     form_history |-> {},
     hist_seq |-> 0,
     show_performances |-> {},
     perf_seq |-> 0,
     active_sessions |-> EmptyBag]

MaxShows == 2
SyncShow == 1          \* the show most requests address: the first created
ShowIds == 1..MaxShows

InitWith(d, sess) ==
    /\ db = d
    /\ session = sess
    /\ now = 0
    /\ resp = NoResp
    /\ last_write = [s \in ShowIds |-> NoWrite]
    /\ hist_log = {LogRow(h) : h \in d.form_history}
    /\ procs = <<>>
    /\ wtx = NoTx
    /\ client_since = [u \in Users |-> EmptySince]

\* nobody is logged in
Init == InitWith(EmptyDb, [u \in Users |-> LoggedOut])

\* every account is logged in (from Init by one login each)
InitLoggedIn == InitWith(EmptyDb, [u \in Users |-> LoginSession(EmptyDb, u)])

----------------------------------------------------------------------------
(* Requests that run alone: the whole handler is one step *)

Reply(op, u, s, status, body) ==
    resp' = [op |-> op, user |-> u, show |-> s, status |-> status, body |-> body]

\* the form type whose history a save endpoint writes
FormOf(op) ==
    CASE op = "save_advance" -> "advance"
      [] op = "save_schedule" -> "schedule"
      [] op = "save_postnotes" -> "postnotes"

\* the history variables after a committed write: the write itself and, for
\* a save, the form_history row its transaction inserted
Wrote(op, u, s, data) ==
    /\ last_write' = [last_write EXCEPT ![s] =
                        [op |-> op, user |-> u, at |-> now, data |-> data]]
    /\ hist_log' = IF op \in {"save_advance", "save_schedule", "save_postnotes"}
                   THEN hist_log \cup
                          {[id |-> db.hist_seq + 1, show_id |-> s,
                            form_type |-> FormOf(op), saved_at |-> now]}
                   ELSE hist_log

\* the clock moves on by step seconds
Tick(step) ==
    /\ now' = now + step
    /\ UNCHANGED <<db, session, resp, last_write, hist_log, procs, wtx, client_since>>

Login(u) ==
    /\ ~session[u].logged_in
    /\ session' = [session EXCEPT ![u] = LoginSession(db, u)]
    /\ UNCHANGED <<db, now, resp, last_write, hist_log, procs, wtx, client_since>>

Logout(u) ==
    /\ session[u].logged_in
    /\ session' = [session EXCEPT ![u] = LoggedOut]
    /\ UNCHANGED <<db, now, resp, last_write, hist_log, procs, wtx, client_since>>

\* the checks with the read-only decision taken from the groups of the user
\* as they are now
WriteGate_live(u, s) ==
    IF ~can_access_show(db, u, s) THEN "Access denied."
    ELSE IF is_restricted_user(db, u) THEN "Read-only access."
    ELSE IF s \notin DOMAIN db.shows THEN "Not found."
    ELSE "ok"

\* the two checks every write endpoint starts with, then get_show_or_404:
\* the status the request is rejected with, or 200
WriteGate(u, s) ==
    IF ~can_access_show(db, u, s) THEN "Access denied."
    ELSE IF session[u].is_restricted THEN "Read-only access."
    ELSE IF s \notin DOMAIN db.shows THEN "Not found."
    ELSE "ok"

GateStatus(g) == CASE g = "ok" -> 200 [] g = "Not found." -> 404 [] OTHER -> 403

\* a write endpoint: rejected with nothing touched, or its transaction
WriteRequest(op, u, s, data, results) ==
    /\ session[u].logged_in
    /\ LET g == WriteGate(u, s)
       IN  IF g # "ok"
           THEN /\ Reply(op, u, s, GateStatus(g), g)
                /\ UNCHANGED <<db, last_write, hist_log>>
           ELSE /\ db' \in results
                /\ Reply(op, u, s, 200, "ok")
                /\ Wrote(op, u, s, data)
    /\ UNCHANGED <<session, now, procs, wtx, client_since>>

SaveAdvance(u, s, data) ==
    WriteRequest("save_advance", u, s, data, save_advance_txn(db, u, s, data, now))

SaveSchedule(u, s, data) ==
    WriteRequest("save_schedule", u, s, data, save_schedule_txn(db, u, s, data, now))

SavePostnotes(u, s, data) ==
    WriteRequest("save_postnotes", u, s, data, save_postnotes_txn(db, u, s, data, now))

\* the SELECT by id alone
FindEntry_any_show(d, show_id, hist_id) ==
    {h \in d.form_history : h.id = hist_id}

\* SELECT * FROM form_history WHERE id=? AND show_id=?
FindEntry(d, show_id, hist_id) ==
    {h \in d.form_history : h.id = hist_id /\ h.show_id = show_id}

RestoreHistory(u, s, hist_id) ==
    /\ session[u].logged_in
    /\ IF ~can_access_show(db, u, s)
       THEN /\ Reply("restore_history", u, s, 403, "Access denied.")
            /\ UNCHANGED <<db, last_write, hist_log>>
       ELSE IF session[u].is_restricted
       THEN /\ Reply("restore_history", u, s, 403, "Read-only access.")
            /\ UNCHANGED <<db, last_write, hist_log>>
       ELSE IF FindEntry(db, s, hist_id) = {}
       THEN /\ Reply("restore_history", u, s, 404, [hist_id |-> hist_id])
            /\ UNCHANGED <<db, last_write, hist_log>>
       ELSE LET entry == CHOOSE h \in FindEntry(db, s, hist_id) : TRUE
            IN  /\ db' \in restore_history_txn(db, u, s, entry, now)
                /\ Reply("restore_history", u, s, 200, [hist_id |-> hist_id])
                /\ Wrote("restore_history", u, s, entry.snapshot)
    /\ UNCHANGED <<session, now, procs, wtx, client_since>>

NewShow(u, name, show_date, show_time, venue) ==
    /\ session[u].logged_in
    /\ IF session[u].is_restricted
       THEN /\ Reply("new_show", u, 0, 403, "Forbidden")
            /\ UNCHANGED <<db, last_write, hist_log>>
       ELSE IF name = ""
       THEN /\ Reply("new_show", u, 0, 200, "Show name is required.")
            /\ UNCHANGED <<db, last_write, hist_log>>
       ELSE /\ db' = new_show_txn(db, u, name, show_date, show_time, venue, now)
            /\ Reply("new_show", u, db.show_seq + 1, 302, "ok")
            /\ Wrote("new_show", u, db.show_seq + 1, <<>>)
    /\ UNCHANGED <<session, now, procs, wtx, client_since>>

AddPerformance(u, s, perf_date, perf_time) ==
    WriteRequest("add_performance", u, s, <<>>,
                 {add_performance_txn(db, s, perf_date, perf_time, now)})

UpdatePerformance(u, s, perf_id, perf_date, perf_time) ==
    /\ session[u].logged_in
    /\ IF ~can_access_show(db, u, s)
       THEN /\ Reply("update_performance", u, s, 403, "Access denied.")
            /\ UNCHANGED <<db, last_write, hist_log>>
       ELSE IF session[u].is_restricted
       THEN /\ Reply("update_performance", u, s, 403, "Read-only access.")
            /\ UNCHANGED <<db, last_write, hist_log>>
       ELSE IF ~\E p \in db.show_performances : p.id = perf_id /\ p.show_id = s
       THEN /\ Reply("update_performance", u, s, 404, "Not found.")
            /\ UNCHANGED <<db, last_write, hist_log>>
       ELSE /\ db' = update_performance_txn(db, s, perf_id, perf_date, perf_time, now)
            /\ Reply("update_performance", u, s, 200, "ok")
            /\ Wrote("update_performance", u, s, <<>>)
    /\ UNCHANGED <<session, now, procs, wtx, client_since>>

DeletePerformance(u, s, perf_id) ==
    /\ session[u].logged_in
    /\ IF ~can_access_show(db, u, s)
       THEN /\ Reply("delete_performance", u, s, 403, "Access denied.")
            /\ UNCHANGED <<db, last_write, hist_log>>
       ELSE IF session[u].is_restricted
       THEN /\ Reply("delete_performance", u, s, 403, "Read-only access.")
            /\ UNCHANGED <<db, last_write, hist_log>>
       ELSE IF ~\E p \in db.show_performances : p.id = perf_id /\ p.show_id = s
       THEN /\ Reply("delete_performance", u, s, 404, "Not found.")
            /\ UNCHANGED <<db, last_write, hist_log>>
       ELSE /\ db' = delete_performance_txn(db, s, perf_id, now)
            /\ Reply("delete_performance", u, s, 200, "ok")
            /\ Wrote("delete_performance", u, s, <<>>)
    /\ UNCHANGED <<session, now, procs, wtx, client_since>>

\* sync_advance.  The INSERT into active_sessions of a show that does not
\* exist fails on its foreign key: the request ends with an error and
\* nothing is committed.
sync_advance(u, s, since, tab, focused_field) ==
    /\ session[u].logged_in
    /\ IF ~can_access_show(db, u, s)
       THEN /\ Reply("sync_advance", u, s, 403, "Forbidden")
            /\ UNCHANGED db
       ELSE IF s \notin DOMAIN db.shows
       THEN /\ Reply("sync_advance", u, s, 500, "IntegrityError")
            /\ UNCHANGED db
       ELSE LET d1 == _upsert_active_session(db, u, s, tab, OrNone(focused_field), now)
            IN  /\ db' = d1
                /\ Reply("sync_advance", u, s, 200,
                         [since_in |-> since, tab_in |-> tab,
                          field_in |-> focused_field,
                          since |-> NewSince(db, s, since),
                          fields |-> ChangedFields(db, u, s, since),
                          active_users |-> _get_other_active_users(d1, u, s, now)])
    /\ UNCHANGED <<session, now, last_write, hist_log, procs, wtx>>

\* a poll with a since of the caller's choice
SyncAdvance(u, s, since, tab, focused_field) ==
    /\ sync_advance(u, s, since, tab, focused_field)
    /\ UNCHANGED client_since

\* a poll of the page: it passes the since of the last response it received
\* and keeps the since of this one
Poll(u, s, tab, focused_field) ==
    /\ sync_advance(u, s, client_since[u], tab, focused_field)
    /\ client_since' = [client_since EXCEPT ![u] =
                           IF resp'.status = 200 THEN resp'.body.since ELSE @]

\* history_snapshot: the stored payload of one entry of the show (the
\* response is recorded with the hist_id of the request, as restore_history's)
HistorySnapshot(u, s, hist_id) ==
    /\ session[u].logged_in
    /\ IF ~can_access_show(db, u, s)
       THEN Reply("history_snapshot", u, s, 403, "Forbidden")
       ELSE IF FindEntry(db, s, hist_id) = {}
       THEN Reply("history_snapshot", u, s, 404, [hist_id |-> hist_id])
       ELSE LET entry == CHOOSE h \in FindEntry(db, s, hist_id) : TRUE
            IN  Reply("history_snapshot", u, s, 200,
                      [hist_id |-> hist_id,
                       id |-> entry.id, form_type |-> entry.form_type,
                       saved_at |-> entry.saved_at, data |-> entry.snapshot])
    /\ UNCHANGED <<db, session, now, last_write, hist_log, procs, wtx, client_since>>

FormHistoryList(u, s, form_type) ==
    /\ session[u].logged_in
    /\ IF ~can_access_show(db, u, s)
       THEN Reply("form_history_list", u, s, 403, "Forbidden")
       ELSE \E entries \in form_history_list(db, s, form_type) :
               Reply("form_history_list", u, s, 200,
                     [form_type |-> form_type, entries |-> entries])
    /\ UNCHANGED <<db, session, now, last_write, hist_log, procs, wtx, client_since>>

\* other_saved whenever somebody has saved, the caller included
OtherSaved_any(last_saved_by, user_id) ==
    IF last_saved_by = NULL THEN "null" ELSE "true"

\* show and show['last_saved_by'] and show['last_saved_by'] != user_id, as
\* jsonify writes it: Python's and yields None for a NULL last_saved_by
OtherSaved(last_saved_by, user_id) ==
    IF last_saved_by = NULL THEN "null"
    ELSE IF last_saved_by # user_id THEN "true" ELSE "false"

ShowHeartbeat(u, s, tab, focused_field) ==
    /\ session[u].logged_in
    /\ IF ~can_access_show(db, u, s)
       THEN /\ Reply("show_heartbeat", u, s, 403, "Forbidden")
            /\ UNCHANGED db
       ELSE IF s \notin DOMAIN db.shows
       THEN /\ Reply("show_heartbeat", u, s, 500, "IntegrityError")
            /\ UNCHANGED db
       ELSE LET d1 == _upsert_active_session(db, u, s, tab, OrNone(focused_field), now)
                by == d1.shows[s].last_saved_by
            IN  /\ db' = d1
                /\ Reply("show_heartbeat", u, s, 200,
                         [tab_in |-> tab, field_in |-> focused_field,
                          active_users |-> _get_other_active_users(d1, u, s, now),
                          other_saved |-> OtherSaved(by, u),
                          last_saved_at |-> d1.shows[s].last_saved_at])
    /\ UNCHANGED <<session, now, last_write, hist_log, procs, wtx, client_since>>

----------------------------------------------------------------------------
(* Show lifecycle: dashboard, archive, restore *)

\* SELECT DISTINCT show_id FROM show_performances [WHERE cond]
PerfShows(d, Cond(_)) == {p.show_id : p \in {q \in d.show_performances : Cond(q)}}

\* the UPDATE with every active show archived, whatever its dates
auto_archive_past_shows_all(d, today) ==
    [d EXCEPT !.shows =
        [s \in DOMAIN d.shows |->
            IF d.shows[s].status = "active"
            THEN [d.shows[s] EXCEPT !.status = "archived"]
            ELSE d.shows[s]]]

\* UPDATE shows SET status = 'archived' WHERE status = 'active' AND (...):
\* dates are ISO text, compared as text
auto_archive_past_shows(d, today) ==
    LET any == PerfShows(d, LAMBDA q : TRUE)
        open == PerfShows(d, LAMBDA q : \/ q.perf_date = NULL
                                       \/ DayOf(q.perf_date) >= DayOf(today))
        hit(s) == /\ d.shows[s].status = "active"
                  /\ \/ s \in any /\ s \notin open
                     \/ /\ s \notin any
                        /\ d.shows[s].show_date # NULL
                        /\ DayOf(d.shows[s].show_date) < DayOf(today)
    IN  [d EXCEPT !.shows =
            [s \in DOMAIN d.shows |->
                IF hit(s) THEN [d.shows[s] EXCEPT !.status = "archived"]
                ELSE d.shows[s]]]

\* dashboard: auto_archive_past_shows() on today's date, then the lists
Dashboard(u, today) ==
    /\ session[u].logged_in
    /\ db' = auto_archive_past_shows(db, today)
    /\ Reply("dashboard", u, 0, 200, [today |-> today])
    /\ UNCHANGED <<session, now, last_write, hist_log, procs, wtx, client_since>>

\* archive_show and restore_show: the UPDATE of the status, for whoever is
\* logged in and not read-only by their session
SetStatus(op, u, s, status) ==
    /\ session[u].logged_in
    /\ IF session[u].is_restricted
       THEN /\ Reply(op, u, s, 403, "Forbidden")
            /\ UNCHANGED db
       ELSE /\ db' = [db EXCEPT !.shows = SetShowCol(db.shows, s, "status", status)]
            /\ Reply(op, u, s, 302, "ok")
    /\ UNCHANGED <<session, now, last_write, hist_log, procs, wtx, client_since>>

ArchiveShow(u, s) == SetStatus("archive_show", u, s, "archived")

RestoreShow(u, s) == SetStatus("restore_show", u, s, "active")

----------------------------------------------------------------------------
(* Settings: groups, members and grants (admin_required) *)

\* an admin_required endpoint: 403 unless the session's role is admin, 500
\* when a foreign key fails (nothing is committed), else the statement is
\* committed.
AdminRequest(u, fk_ok, d2) ==
    /\ session[u].logged_in
    /\ IF session[u].user_role # "admin"
       THEN /\ Reply("settings", u, 0, 403, "Forbidden")
            /\ UNCHANGED db
       ELSE IF ~fk_ok
       THEN /\ Reply("settings", u, 0, 500, "IntegrityError")
            /\ UNCHANGED db
       ELSE /\ db' = d2
            /\ Reply("settings", u, 0, 200, "ok")
    /\ UNCHANGED <<session, now, last_write, hist_log, procs, wtx, client_since>>

\* user_groups.name is UNIQUE: a second group of the name is refused (400)
AddGroup(u, g, group_type) ==
    /\ g \notin DOMAIN db.user_groups
    /\ AdminRequest(u, TRUE,
          [db EXCEPT !.user_groups = (g :> group_type) @@ db.user_groups])

EditGroup(u, g, group_type) ==
    AdminRequest(u, TRUE,
        IF g \in DOMAIN db.user_groups
        THEN [db EXCEPT !.user_groups[g] = group_type]
        ELSE db)

\* ON DELETE CASCADE removes the group's members and grants
DeleteGroup(u, g) ==
    AdminRequest(u, TRUE,
        [db EXCEPT
           !.user_groups = [x \in DOMAIN db.user_groups \ {g} |-> db.user_groups[x]],
           !.user_group_members = {m \in db.user_group_members : m[2] # g},
           !.show_group_access = {a \in db.show_group_access : a[2] # g}])

\* INSERT OR IGNORE INTO user_group_members (user_id, group_id)
AddGroupMember(u, g, member) ==
    AdminRequest(u,
        g \in DOMAIN db.user_groups /\ member \in DOMAIN db.users,
        [db EXCEPT !.user_group_members = db.user_group_members \cup {<<member, g>>}])

RemoveGroupMember(u, g, member) ==
    AdminRequest(u, TRUE,
        [db EXCEPT !.user_group_members = db.user_group_members \ {<<member, g>>}])

\* INSERT OR IGNORE INTO show_group_access (show_id, group_id)
AddShowAccess(u, s, g) ==
    AdminRequest(u,
        g \in DOMAIN db.user_groups /\ s \in DOMAIN db.shows,
        [db EXCEPT !.show_group_access = db.show_group_access \cup {<<s, g>>}])

RemoveShowAccess(u, s, g) ==
    AdminRequest(u, TRUE,
        [db EXCEPT !.show_group_access = db.show_group_access \ {<<s, g>>}])

----------------------------------------------------------------------------
(* Requests that overlap.  Every request runs on connections of its own      *)
(* (get_db).  A SELECT outside a transaction reads the database as committed *)
(* at that moment; the first INSERT / UPDATE / DELETE of a connection opens  *)
(* a transaction and takes SQLite's write lock, held until commit or until   *)
(* the connection is dropped.  A step is one statement, or a run of          *)
(* statements under the write lock that no other connection can tell apart.  *)

Idle ==
    [op |-> "idle", pc |-> "idle", show |-> 0, data |-> <<>>, todo |-> {},
     since |-> NoTime, fields |-> <<>>, cursor |-> NoTime, view |-> <<>>,
     status |-> 0, snaps |-> {}, overlap |-> FALSE, hist_id |-> 0]

SaveOps == {"save_advance", "save_schedule", "save_postnotes"}
ReaderOps == {"sync_advance", "show_heartbeat", "form_history_list", "show_page"}

InFlight(p) == p.pc \notin {"idle", "done"}

\* history variable snaps of a reader: the databases committed while it runs
Observe(ps, d2) ==
    [v \in DOMAIN ps |->
        IF ps[v].op \in ReaderOps /\ InFlight(ps[v])
        THEN [ps[v] EXCEPT !.snaps = @ \cup {d2}]
        ELSE ps[v]]

\* the request ends: its response is in status / fields / cursor / view
Done(p, status) == [p EXCEPT !.pc = "done", !.status = status]

\* the write lock is never taken: every connection writes at once
WriteLockIgnored(u) == TRUE

\* the connection of u can write: no other connection holds the write lock
WriteLockFree(u) == wtx.owners \subseteq {u}

\* the database the next statement of a transaction runs on
WorkingCopy == IF wtx.owners = {} THEN db ELSE wtx.db

\* the statement of u's transaction has run and left d2
Executed(u, d2) == wtx' = [owners |-> wtx.owners \cup {u}, db |-> d2]

\* u's connection lets go of the write lock
Released(u) ==
    wtx' = IF wtx.owners \subseteq {u} THEN NoTx
           ELSE [owners |-> wtx.owners \ {u}, db |-> wtx.db]

\* a write endpoint up to get_db(): the two checks and get_show_or_404
StartWrite(u, op, s, data) ==
    /\ session[u].logged_in
    /\ procs[u].pc = "idle"
    /\ LET g == WriteGate(u, s)
           p == [Idle EXCEPT !.op = op, !.show = s, !.data = data,
                             !.overlap = \E v \in DOMAIN procs \ {u} :
                                            InFlight(procs[v])]
       IN  procs' = [procs EXCEPT ![u] =
              IF g # "ok" THEN Done(p, GateStatus(g))
              ELSE IF op = "save_advance"
                   THEN [p EXCEPT !.pc = "upsert", !.todo = DOMAIN data]
                   ELSE [p EXCEPT !.pc = "write"]]
    /\ UNCHANGED <<db, session, now, resp, last_write, hist_log, wtx, client_since>>

\* save_advance: INSERT OR REPLACE INTO advance_data for one key of the payload
save_advance_upsert(u) ==
    LET p == procs[u]
    IN  /\ p.op = "save_advance" /\ p.pc = "upsert"
        /\ WriteLockFree(u)
        /\ p.show \in DOMAIN WorkingCopy.shows
        /\ \E k \in p.todo :
              /\ Executed(u, [WorkingCopy EXCEPT !.advance_data =
                       InsertOrReplace(@, AdvRow(p.show, k, StrOrEmpty(p.data[k]), now))])
              /\ procs' = [procs EXCEPT ![u].todo = p.todo \ {k},
                                        ![u].pc = IF p.todo = {k} THEN "core" ELSE "upsert"]
        /\ UNCHANGED <<db, session, now, resp, last_write, hist_log, client_since>>

\* save_advance: the UPDATEs that mirror the core keys
save_advance_core(u) ==
    LET p == procs[u]
    IN  /\ p.op = "save_advance" /\ p.pc = "core"
        /\ WriteLockFree(u)
        /\ Executed(u, [WorkingCopy EXCEPT !.shows = MirrorCore(@, p.show, p.data)])
        /\ procs' = [procs EXCEPT ![u].pc = "stamp"]
        /\ UNCHANGED <<db, session, now, resp, last_write, hist_log, client_since>>

\* save_advance: UPDATE shows SET last_saved_by, last_saved_at
save_advance_stamp(u) ==
    LET p == procs[u]
    IN  /\ p.op = "save_advance" /\ p.pc = "stamp"
        /\ WriteLockFree(u)
        /\ Executed(u, [WorkingCopy EXCEPT !.shows = StampShow(@, p.show, u, now)])
        /\ procs' = [procs EXCEPT ![u].pc = "snapshot"]
        /\ UNCHANGED <<db, session, now, resp, last_write, hist_log, client_since>>

\* save_advance: _snapshot_form_history
save_advance_snapshot(u) ==
    LET p == procs[u]
    IN  /\ p.op = "save_advance" /\ p.pc = "snapshot"
        /\ WriteLockFree(u)
        /\ p.show \in DOMAIN WorkingCopy.shows
        /\ \E d2 \in _snapshot_form_history(WorkingCopy, p.show, "advance", u,
                                             [advance_data |-> p.data], now) :
              Executed(u, d2)
        /\ procs' = [procs EXCEPT ![u].pc = "commit"]
        /\ UNCHANGED <<db, session, now, resp, last_write, hist_log, client_since>>

\* save_schedule / save_postnotes: every statement from the first write to
\* the history snapshot
save_form_write(u) ==
    LET p == procs[u]
    IN  /\ p.op \in {"save_schedule", "save_postnotes"} /\ p.pc = "write"
        /\ WriteLockFree(u)
        /\ p.show \in DOMAIN WorkingCopy.shows
        /\ \E d2 \in IF p.op = "save_schedule"
                      THEN save_schedule_txn(WorkingCopy, u, p.show, p.data, now)
                      ELSE save_postnotes_txn(WorkingCopy, u, p.show, p.data, now) :
              Executed(u, d2)
        /\ procs' = [procs EXCEPT ![u].pc = "commit"]
        /\ UNCHANGED <<db, session, now, resp, last_write, hist_log, client_since>>

\* db.commit() of a save
save_commit(u) ==
    LET p == procs[u]
    IN  /\ p.op \in SaveOps /\ p.pc = "commit"
        /\ db' = wtx.db
        /\ Released(u)
        /\ procs' = Observe([procs EXCEPT ![u] = Done(p, 200)], wtx.db)
        /\ Wrote(p.op, u, p.show, p.data)
        /\ UNCHANGED <<session, now, resp, client_since>>

\* restore_history up to get_db(): the two checks (no get_show_or_404)
StartRestore(u, s, hist_id) ==
    /\ session[u].logged_in
    /\ procs[u].pc = "idle"
    /\ LET p == [Idle EXCEPT !.op = "restore_history", !.show = s,
                             !.hist_id = hist_id,
                             !.overlap = \E v \in DOMAIN procs \ {u} :
                                            InFlight(procs[v])]
       IN  procs' = [procs EXCEPT ![u] =
              IF ~can_access_show(db, u, s) \/ session[u].is_restricted
              THEN Done(p, 403)
              ELSE [p EXCEPT !.pc = "entry"]]
    /\ UNCHANGED <<db, session, now, resp, last_write, hist_log, wtx, client_since>>

\* restore_history: the SELECT of the entry, abort(404) when there is none
restore_history_entry(u) ==
    LET p == procs[u]
    IN  /\ p.op = "restore_history" /\ p.pc = "entry"
        /\ procs' = [procs EXCEPT ![u] =
              IF FindEntry(db, p.show, p.hist_id) = {} THEN Done(p, 404)
              ELSE [p EXCEPT !.pc = "replay",
                             !.data = CHOOSE h \in FindEntry(db, p.show, p.hist_id) : TRUE]]
        /\ UNCHANGED <<db, session, now, resp, last_write, hist_log, wtx, client_since>>

\* the replay of the entry executes at least one INSERT
ReplayInserts(entry) ==
    CASE entry.form_type = "advance" ->
            DOMAIN SnapGet(entry.snapshot, "advance_data") # {}
      [] entry.form_type = "schedule" ->
            \/ DOMAIN SnapGet(entry.snapshot, "meta") # {}
            \/ DOMAIN SnapGet(entry.snapshot, "rows") # {}
      [] entry.form_type = "postnotes" ->
            DOMAIN SnapGet(entry.snapshot, "notes_data") # {}

\* restore_history: the replay and the stamp
restore_history_replay(u) ==
    LET p == procs[u]
    IN  /\ p.op = "restore_history" /\ p.pc = "replay"
        /\ WriteLockFree(u)
        /\ ReplayInserts(p.data) => p.show \in DOMAIN WorkingCopy.shows
        /\ \E d2 \in restore_history_txn(WorkingCopy, u, p.show, p.data, now) :
              Executed(u, d2)
        /\ procs' = [procs EXCEPT ![u].pc = "commit"]
        /\ UNCHANGED <<db, session, now, resp, last_write, hist_log, client_since>>

\* db.commit() of a restore
restore_history_commit(u) ==
    LET p == procs[u]
    IN  /\ p.op = "restore_history" /\ p.pc = "commit"
        /\ db' = wtx.db
        /\ Released(u)
        /\ procs' = Observe([procs EXCEPT ![u] = Done(p, 200)], wtx.db)
        /\ Wrote(p.op, u, p.show, p.data.snapshot)
        /\ UNCHANGED <<session, now, resp, client_since>>

\* the next statement inserts a row that references the show and the show
\* is gone: PRAGMA foreign_keys = ON makes the INSERT raise IntegrityError,
\* the request ends in an error and its transaction is rolled back
ForeignKeyFails(u) ==
    LET p == procs[u]
    IN  /\ \/ p.op \in SaveOps /\ p.pc \in {"upsert", "snapshot", "write"}
           \/ p.op = "restore_history" /\ p.pc = "replay" /\ ReplayInserts(p.data)
        /\ WriteLockFree(u)
        /\ p.show \notin DOMAIN WorkingCopy.shows
        /\ Released(u)
        /\ procs' = [procs EXCEPT ![u] = Done([p EXCEPT !.view = "IntegrityError"], 500)]
        /\ UNCHANGED <<db, session, now, resp, last_write, hist_log, client_since>>

\* delete_show with the cascade of the foreign keys left out
delete_show_txn_no_cascade(d, s) ==
    [d EXCEPT !.advance_data = DeleteShowRows(@, s),
              !.schedule_rows = DeleteShowRows(@, s),
              !.schedule_meta = DeleteShowRows(@, s),
              !.post_show_notes = DeleteShowRows(@, s),
              !.form_history = {h \in @ : h.show_id # s},
              !.show_group_access = {x \in @ : x[1] # s},
              !.shows = [x \in DOMAIN @ \ {s} |-> @[x]]]

\* delete_show: the DELETEs of its list of tables (export_log is not
\* modelled), then DELETE FROM shows, which cascades to the tables that
\* reference shows(id) ON DELETE CASCADE (show_performances is taken to be
\* one of them)
delete_show_txn(d, s) ==
    [d EXCEPT !.advance_data = DeleteShowRows(@, s),
              !.schedule_rows = DeleteShowRows(@, s),
              !.schedule_meta = DeleteShowRows(@, s),
              !.post_show_notes = DeleteShowRows(@, s),
              !.form_history = {h \in @ : h.show_id # s},
              !.show_group_access = {x \in @ : x[1] # s},
              !.shows = [x \in DOMAIN @ \ {s} |-> @[x]],
              !.active_sessions = DeleteShowRows(@, s),
              !.show_performances = {q \in @ : q.show_id # s}]

\* delete_show (admin_required): one transaction, from its first DELETE,
\* which takes the write lock, to db.commit()
DeleteShow(u, s) ==
    /\ session[u].logged_in
    /\ IF session[u].user_role # "admin"
       THEN /\ Reply("delete_show", u, s, 403, "Forbidden")
            /\ UNCHANGED <<db, procs>>
       ELSE /\ wtx.owners = {}
            /\ db' = delete_show_txn(db, s)
            /\ procs' = Observe(procs, delete_show_txn(db, s))
            /\ Reply("delete_show", u, s, 302, "ok")
    /\ UNCHANGED <<session, now, last_write, hist_log, wtx, client_since>>

\* the statement that needs the write lock gives up after the busy timeout
\* ("database is locked"): the request ends with an error
Busy(u) ==
    /\ procs[u].pc \in {"upsert", "write", "touch", "replay"}
    /\ u \notin wtx.owners /\ wtx.owners # {}
    /\ procs' = [procs EXCEPT ![u] = Done(procs[u], 500)]
    /\ UNCHANGED <<db, session, now, resp, last_write, hist_log, wtx, client_since>>

\* the request dies between its first write and db.commit(): the connection
\* is dropped and SQLite rolls the transaction back
Abort(u) ==
    /\ InFlight(procs[u]) /\ u \in wtx.owners
    /\ Released(u)
    /\ procs' = [procs EXCEPT ![u] = Done(procs[u], 500)]
    /\ UNCHANGED <<db, session, now, resp, last_write, hist_log, client_since>>

\* the response has been sent
Return(u) ==
    /\ procs[u].pc = "done"
    /\ procs' = [procs EXCEPT ![u] = Idle]
    /\ UNCHANGED <<db, session, now, resp, last_write, hist_log, wtx, client_since>>

\* a read endpoint up to get_db(): the access check
StartRead(u, op, s, pc, since) ==
    /\ session[u].logged_in
    /\ procs[u].pc = "idle"
    /\ LET p == [Idle EXCEPT !.op = op, !.show = s, !.since = since,
                             !.snaps = {db},
                             !.overlap = \E v \in DOMAIN procs \ {u} :
                                            InFlight(procs[v])]
       IN  procs' = [procs EXCEPT ![u] =
              IF ~can_access_show(db, u, s) THEN Done(p, 403)
              ELSE [p EXCEPT !.pc = pc]]
    /\ UNCHANGED <<db, session, now, resp, last_write, hist_log, wtx, client_since>>

\* sync_advance: the SELECT of the changed rows
sync_advance_changed(u) ==
    LET p == procs[u]
    IN  /\ p.op = "sync_advance" /\ p.pc = "changed"
        /\ procs' = [procs EXCEPT ![u].pc = "cursor",
                                  ![u].fields = ChangedFields(db, u, p.show, p.since)]
        /\ UNCHANGED <<db, session, now, resp, last_write, hist_log, wtx, client_since>>

\* sync_advance: SELECT MAX(updated_at)
sync_advance_cursor(u) ==
    LET p == procs[u]
    IN  /\ p.op = "sync_advance" /\ p.pc = "cursor"
        /\ procs' = [procs EXCEPT ![u].pc = "touch",
                                  ![u].cursor = NewSince(db, p.show, p.since)]
        /\ UNCHANGED <<db, session, now, resp, last_write, hist_log, wtx, client_since>>

\* sync_advance: _upsert_active_session, _get_other_active_users, db.commit()
sync_advance_touch(u) ==
    LET p == procs[u]
    IN  /\ p.op = "sync_advance" /\ p.pc = "touch"
        /\ WriteLockFree(u)
        /\ IF p.show \notin DOMAIN db.shows
           THEN /\ procs' = [procs EXCEPT ![u] = Done(p, 500)]
                /\ UNCHANGED db
           ELSE LET d1 == _upsert_active_session(db, u, p.show, "advance", NULL, now)
                    q == [p EXCEPT !.view = _get_other_active_users(d1, u, p.show, now)]
                IN  /\ db' = d1
                    /\ procs' = Observe([procs EXCEPT ![u] = Done(q, 200)], d1)
        /\ UNCHANGED <<session, now, resp, last_write, hist_log, wtx, client_since>>

\* what show_heartbeat reads of the show row
StampOf(d, u, s) ==
    [other_saved |-> OtherSaved(d.shows[s].last_saved_by, u),
     last_saved_at |-> d.shows[s].last_saved_at]

\* show_heartbeat from get_db() to db.commit(): one transaction
show_heartbeat_touch(u) ==
    LET p == procs[u]
    IN  /\ p.op = "show_heartbeat" /\ p.pc = "touch"
        /\ WriteLockFree(u)
        /\ IF p.show \notin DOMAIN db.shows
           THEN /\ procs' = [procs EXCEPT ![u] = Done(p, 500)]
                /\ UNCHANGED db
           ELSE LET d1 == _upsert_active_session(db, u, p.show, "schedule", NULL, now)
                    q == [p EXCEPT !.view = StampOf(d1, u, p.show)]
                IN  /\ db' = d1
                    /\ procs' = Observe([procs EXCEPT ![u] = Done(q, 200)], d1)
        /\ UNCHANGED <<session, now, resp, last_write, hist_log, wtx, client_since>>

\* form_history_list: its one SELECT
form_history_list_select(u) ==
    LET p == procs[u]
    IN  /\ p.op = "form_history_list" /\ p.pc = "select"
        /\ \E entries \in form_history_list(db, p.show, "advance") :
              procs' = [procs EXCEPT ![u] = Done([p EXCEPT !.view = entries], 200)]
        /\ UNCHANGED <<db, session, now, resp, last_write, hist_log, wtx, client_since>>

\* the tables show_page reads of the show, in the order of its SELECTs
PageOrder ==
    <<"shows", "advance_data", "schedule_rows", "schedule_meta",
      "post_show_notes", "show_performances">>

\* what one SELECT of show_page returns
TableView(d, s, tbl) ==
    CASE tbl = "shows" -> d.shows[s]
      [] tbl = "advance_data" -> AsDict(d.advance_data, s)
      [] tbl = "schedule_rows" ->
            {r \in DOMAIN d.schedule_rows : r.show_id = s}
      [] tbl = "schedule_meta" -> AsDict(d.schedule_meta, s)
      [] tbl = "post_show_notes" -> AsDict(d.post_show_notes, s)
      [] tbl = "show_performances" ->
            {q \in d.show_performances : q.show_id = s}

\* the page show_page renders when every SELECT reads database d
PageView(d, s) ==
    [i \in DOMAIN PageOrder |-> TableView(d, s, PageOrder[i])]

\* show_page: its next SELECT (the first, of the show row, may end in 404)
show_page_select(u) ==
    LET p == procs[u]
        i == Len(p.view) + 1
    IN  /\ p.op = "show_page" /\ p.pc = "select"
        /\ procs' = [procs EXCEPT ![u] =
              IF p.show \notin DOMAIN db.shows THEN Done(p, 404)
              ELSE LET q == [p EXCEPT !.view = Append(@, TableView(db, p.show, PageOrder[i]))]
                   IN  IF i = Len(PageOrder) THEN Done(q, 200) ELSE q]
        /\ UNCHANGED <<db, session, now, resp, last_write, hist_log, wtx, client_since>>

----------------------------------------------------------------------------
(* Spec: the form store, requests one at a time *)

MaxTime == 2          \* the clock stops here
MaxSaves == 3         \* history rows ever inserted (AUTOINCREMENT id)

MaxPerfs == 2         \* performances ever inserted (AUTOINCREMENT id)

Editors == {"A", "B"}
NotePayloads == {[notes |-> JStr("ok")]}
HistSchedule ==
    {[meta |-> [load_in |-> JStr("09:00")],
      rows |-> <<[start_time |-> "10:00", description |-> "Doors"]>>]}
AdvPayloads ==
    {[venue |-> JStr("Foo")],
     [venue |-> JNull, show_date |-> JStr("2026-01-02")]}

MaxFormSaves == 2     \* history rows inserted in Spec
MaxFormTicks == 1     \* seconds the clock moves on in Spec

\* the shows the requests of Spec address (the others are only created)
FormShows == {SyncShow}

NextForms ==
    \/ now < MaxFormTicks /\ Tick(1)
    \/ \E show_date \in {NULL, "2026-01-02"} :
          /\ db.show_seq < MaxShows /\ db.perf_seq < MaxPerfs
          /\ NewShow("A", "Gala", show_date, "", "Hall")
    \/ \E u \in Editors, s \in FormShows, data \in AdvPayloads :
          db.hist_seq < MaxFormSaves /\ SaveAdvance(u, s, data)
    \/ \E s \in FormShows, data \in HistSchedule :
          db.hist_seq < MaxFormSaves /\ SaveSchedule("A", s, data)
    \/ \E s \in FormShows, data \in NotePayloads :
          db.hist_seq < MaxFormSaves /\ SavePostnotes("B", s, data)
    \/ \E s \in FormShows, hist_id \in 1..MaxFormSaves : RestoreHistory("B", s, hist_id)
    \/ \E s \in FormShows :
          db.perf_seq < MaxPerfs /\ AddPerformance("A", s, "2026-01-01", "20:00")
    \/ \E s \in FormShows, perf_id \in 1..MaxPerfs :
          UpdatePerformance("A", s, perf_id, NULL, "")
    \/ \E s \in FormShows, perf_id \in 1..MaxPerfs : DeletePerformance("A", s, perf_id)

Spec == InitLoggedIn /\ [][NextForms]_vars

----------------------------------------------------------------------------
(* SpecSync: one show, two editors who save and poll *)

SyncPayloads == {[venue |-> JStr("Foo")], [venue |-> JNull]}
Cursors == {EmptySince} \cup 0..MaxTime

NextSync ==
    \/ now < MaxTime /\ Tick(1)
    \/ db.show_seq < SyncShow /\ NewShow("A", "Gala", NULL, "", "Hall")
    \/ \E u \in Editors, data \in SyncPayloads :
          db.hist_seq < MaxSaves /\ SaveAdvance(u, SyncShow, data)
    \/ \E u \in Editors, data \in NotePayloads :
          db.hist_seq < MaxSaves /\ SavePostnotes(u, SyncShow, data)
    \/ \E u \in Editors, since \in Cursors :
          SyncAdvance(u, SyncShow, since, "advance", NULL)

SpecSync == InitLoggedIn /\ [][NextSync]_vars

----------------------------------------------------------------------------
(* SpecSched: the schedule of one show, saved and restored *)

RowDoors == [start_time |-> "10:00", description |-> "Doors"]
RowShow == [start_time |-> "20:00", end_time |-> "22:00", description |-> "Show"]

SchedPayloads ==
    {[rows |-> <<RowDoors, RowShow>>],
     [rows |-> <<RowShow>>],
     [meta |-> [load_in |-> JStr("09:00")], rows |-> <<>>],
     [meta |-> [load_in |-> JNull]]}

MaxSchedSaves == 3    \* history rows inserted in SpecSched

NextSched ==
    \/ now < MaxFormTicks /\ Tick(1)
    \/ db.show_seq < MaxShows /\ NewShow("A", "Gala", NULL, "", "Hall")
    \/ \E s \in ShowIds, data \in SchedPayloads :
          db.hist_seq < MaxSchedSaves /\ SaveSchedule("A", s, data)
    \/ \E s \in ShowIds, hist_id \in 1..MaxSchedSaves :
          RestoreHistory("B", s, hist_id)
    \/ \E s \in ShowIds, hist_id \in 1..MaxSchedSaves :
          HistorySnapshot("B", s, hist_id)

SpecSched == InitLoggedIn /\ [][NextSched]_vars

----------------------------------------------------------------------------
(* SpecHist: the history log of one show around its limit *)

\* the saves already made when SpecHist starts: one less than the limit
HistSeed == HistoryLimit - 1
MaxHistInserts == 3   \* further history rows inserted

\* the second and the user of the i-th of these saves (the first two fall
\* within the same second, then one save a second)
SeedTime(i) == IF i = 1 THEN 1 ELSE i - 1
SeedUser(i) == IF i % 2 = 1 THEN "A" ELSE "B"

\* the database after new_show by A and then n times save_advance of
\* venue=Foo on the show, the i-th by SeedUser(i) at second SeedTime(i)
SeedDb(n) ==
    LET base == new_show_txn(EmptyDb, "A", "Gala", NULL, "", "Hall", 0)
    IN  [base EXCEPT
           !.advance_data =
               InsertOrReplace(base.advance_data,
                               AdvRow(SyncShow, "venue", "Foo", SeedTime(n))),
           !.shows = StampShow(SetShowCol(base.shows, SyncShow, "venue", "Foo"),
                               SyncShow, SeedUser(n), SeedTime(n)),
           !.form_history =
               {[id |-> i, show_id |-> SyncShow, form_type |-> "advance",
                 saved_by |-> SeedUser(i), saved_at |-> SeedTime(i),
                 snapshot |-> [advance_data |-> [venue |-> JStr("Foo")]]] :
                    i \in 1..n},
           !.hist_seq = n]

InitHist ==
    /\ db = SeedDb(HistSeed)
    /\ session = [u \in Users |-> LoginSession(EmptyDb, u)]
    /\ now = SeedTime(HistSeed)
    /\ resp = NoResp
    /\ last_write = [s \in ShowIds |->
                       IF s = SyncShow
                       THEN [op |-> "save_advance", user |-> SeedUser(HistSeed),
                             at |-> SeedTime(HistSeed),
                             data |-> [venue |-> JStr("Foo")]]
                       ELSE NoWrite]
    /\ hist_log = {LogRow(h) : h \in SeedDb(HistSeed).form_history}
    /\ procs = <<>>
    /\ wtx = NoTx
    /\ client_since = [u \in Users |-> EmptySince]

HistAdvance == {[venue |-> JStr("Bar")]}
RestoreIds == {1, HistSeed + 1}
MaxHistTicks == 1     \* seconds the clock moves on in SpecHist

NextHist ==
    \/ now < SeedTime(HistSeed) + MaxHistTicks /\ Tick(1)
    \/ \E u \in Editors, data \in HistAdvance :
          db.hist_seq < HistSeed + MaxHistInserts /\ SaveAdvance(u, SyncShow, data)
    \/ \E u \in Editors, data \in HistSchedule :
          db.hist_seq < HistSeed + MaxHistInserts /\ SaveSchedule(u, SyncShow, data)
    \/ \E u \in Editors, data \in NotePayloads :
          db.hist_seq < HistSeed + MaxHistInserts /\ SavePostnotes(u, SyncShow, data)
    \/ \E u \in Editors, hist_id \in RestoreIds : RestoreHistory(u, SyncShow, hist_id)
    \/ \E form_type \in {"advance", "schedule"} :
          FormHistoryList("A", SyncShow, form_type)

SpecHist == InitHist /\ [][NextHist]_vars

----------------------------------------------------------------------------
(* SpecAccess: one show, the admin changes groups, members and grants while *)
(* user A logs in and out and calls the show endpoints                      *)

OneShowDb == new_show_txn(EmptyDb, ADMIN, "Gala", NULL, "", "Hall", 0)

InitAccess ==
    InitWith(OneShowDb,
             [u \in Users |-> IF u = ADMIN THEN LoginSession(OneShowDb, u)
                              ELSE LoggedOut])

MaxAccessSaves == 1   \* history rows inserted in SpecAccess
AccessTypes == {"restricted", "all_access"}

NextAccess ==
    \/ Login("A")
    \/ Logout("A")
    \/ \E g \in Groups, ty \in AccessTypes : AddGroup(ADMIN, g, ty)
    \/ \E g \in Groups, ty \in AccessTypes : EditGroup(ADMIN, g, ty)
    \/ \E g \in Groups : DeleteGroup(ADMIN, g)
    \/ \E g \in Groups : AddGroupMember(ADMIN, g, "A")
    \/ \E g \in Groups : RemoveGroupMember(ADMIN, g, "A")
    \/ \E g \in Groups : AddShowAccess(ADMIN, SyncShow, g)
    \/ \E g \in Groups : RemoveShowAccess(ADMIN, SyncShow, g)
    \/ \E u \in {ADMIN, "A"}, data \in SyncPayloads :
          db.hist_seq < MaxAccessSaves /\ SaveAdvance(u, SyncShow, data)
    \/ \E data \in HistSchedule :
          db.hist_seq < MaxAccessSaves /\ SaveSchedule("A", SyncShow, data)
    \/ \E data \in NotePayloads :
          db.hist_seq < MaxAccessSaves /\ SavePostnotes("A", SyncShow, data)
    \/ RestoreHistory("A", SyncShow, 1)
    \/ FormHistoryList("A", SyncShow, "advance")
    \/ HistorySnapshot("A", SyncShow, 1)
    \/ \E since \in {EmptySince, 0} : SyncAdvance("A", SyncShow, since, "advance", NULL)
    \/ ShowHeartbeat("A", SyncShow, "schedule", NULL)

SpecAccess == InitAccess /\ [][NextAccess]_vars

----------------------------------------------------------------------------
(* SpecConc: one show; A saves while B saves, polls and loads the page *)

\* the show was created by A at second 0; it is second 1
InitConc ==
    /\ db = new_show_txn(EmptyDb, "A", "Gala", NULL, "", "Hall", 0)
    /\ session = [u \in Users |-> LoginSession(EmptyDb, u)]
    /\ now = 1
    /\ resp = NoResp
    /\ last_write = [s \in ShowIds |-> NoWrite]
    /\ hist_log = {}
    /\ procs = [u \in Editors |-> Idle]
    /\ wtx = NoTx
    /\ client_since = [u \in Users |-> EmptySince]

MaxConcSaves == 2     \* saves started in SpecConc

ConcPayload(u) ==
    IF u = "A" THEN [venue |-> JStr("Foo"), show_time |-> JStr("19:00")]
    ELSE [venue |-> JStr("Bar"), show_time |-> JStr("20:00")]

\* the saves that were committed or are running
SavesStarted ==
    db.hist_seq + Cardinality({u \in Editors :
                                  procs[u].op \in SaveOps /\ InFlight(procs[u])})

NextConc ==
    \/ \E u \in Editors :
          /\ SavesStarted < MaxConcSaves
          /\ StartWrite(u, "save_advance", SyncShow, ConcPayload(u))
    \/ \E data \in HistSchedule :
          /\ SavesStarted < MaxConcSaves
          /\ StartWrite("A", "save_schedule", SyncShow, data)
    \/ \E data \in NotePayloads :
          /\ SavesStarted < MaxConcSaves
          /\ StartWrite("A", "save_postnotes", SyncShow, data)
    \/ StartRead("B", "sync_advance", SyncShow, "changed", 0)
    \/ StartRead("B", "show_heartbeat", SyncShow, "touch", NoTime)
    \/ StartRead("B", "form_history_list", SyncShow, "select", NoTime)
    \/ StartRead("B", "show_page", SyncShow, "select", NoTime)
    \/ \E u \in Editors :
          \/ save_advance_upsert(u)
          \/ save_advance_core(u)
          \/ save_advance_stamp(u)
          \/ save_advance_snapshot(u)
          \/ save_form_write(u)
          \/ save_commit(u)
          \/ sync_advance_changed(u)
          \/ sync_advance_cursor(u)
          \/ sync_advance_touch(u)
          \/ show_heartbeat_touch(u)
          \/ form_history_list_select(u)
          \/ show_page_select(u)
          \/ Busy(u)
          \/ Abort(u)
          \/ Return(u)

SpecConc == InitConc /\ [][NextConc]_vars

----------------------------------------------------------------------------
(* SpecResolver: the access resolver under every settings change *)

\* two shows created by the admin at second 0, the admin logged in
TwoShowsDb ==
    new_show_txn(new_show_txn(EmptyDb, ADMIN, "Gala", NULL, "", "Hall", 0),
                 ADMIN, "Expo", NULL, "", "Hall", 0)

InitResolver ==
    InitWith(TwoShowsDb,
             [u \in Users |-> IF u = ADMIN THEN LoginSession(TwoShowsDb, u)
                              ELSE LoggedOut])

\* edit_group stores whatever group_type the request carries
TypeInputs == GroupTypes \cup {"viewer"}
Members == {"A", "B"}

NextResolver ==
    \/ \E u \in Members : Login(u)
    \/ \E u \in Members : Logout(u)
    \/ \E g \in Groups, ty \in GroupTypes : AddGroup(ADMIN, g, ty)
    \/ \E g \in Groups, ty \in TypeInputs : EditGroup(ADMIN, g, ty)
    \/ \E g \in Groups : DeleteGroup(ADMIN, g)
    \/ \E g \in Groups, m \in Members : AddGroupMember(ADMIN, g, m)
    \/ \E g \in Groups, m \in Members : RemoveGroupMember(ADMIN, g, m)
    \/ \E g \in Groups, s \in ShowIds : AddShowAccess(ADMIN, s, g)
    \/ \E g \in Groups, s \in ShowIds : RemoveShowAccess(ADMIN, s, g)

SpecResolver == InitResolver /\ [][NextResolver]_vars

----------------------------------------------------------------------------
(* SpecDelta: one show; saves, restores and performance edits, and polls *)

MaxDeltaSaves == 2    \* history rows inserted in SpecDelta
MaxDeltaPerfs == 1    \* performances inserted in SpecDelta

NextDelta ==
    \/ now < MaxFormTicks /\ Tick(1)
    \/ db.show_seq < SyncShow /\ NewShow("A", "Gala", NULL, "", "Hall")
    \/ \E u \in Editors :
          db.hist_seq < MaxDeltaSaves
             /\ SaveAdvance(u, SyncShow, [venue |-> JStr("Foo")])
    \/ \E hist_id \in 1..MaxDeltaSaves : RestoreHistory("A", SyncShow, hist_id)
    \/ db.perf_seq < MaxDeltaPerfs
          /\ AddPerformance("A", SyncShow, "2026-01-01", "20:00")
    \/ \E perf_id \in 1..MaxDeltaPerfs :
          UpdatePerformance("A", SyncShow, perf_id, "2026-01-02", "")
    \/ \E perf_id \in 1..MaxDeltaPerfs : DeletePerformance("A", SyncShow, perf_id)
    \/ \E since \in {EmptySince, 0} : SyncAdvance("B", SyncShow, since, "advance", "")
    \/ Poll("B", SyncShow, "advance", "")

SpecDelta == InitLoggedIn /\ [][NextDelta]_vars

----------------------------------------------------------------------------
(* SpecLife: shows with and without performances, and the dashboard *)

MaxLifeSaves == 1     \* history rows inserted in SpecLife

NextLife ==
    \/ \E show_date \in {NULL, "2026-01-01"} :
          /\ db.show_seq < MaxShows /\ db.perf_seq < MaxPerfs
          /\ NewShow("A", "Gala", show_date, "", "Hall")
    \/ \E s \in ShowIds :
          db.hist_seq < MaxLifeSaves
             /\ SaveAdvance("A", s, [show_date |-> JStr("2026-01-01")])
    \/ \E s \in ShowIds :
          db.perf_seq < MaxPerfs /\ AddPerformance("A", s, "2026-01-02", "20:00")
    \/ \E s \in ShowIds, perf_id \in 1..MaxPerfs :
          UpdatePerformance("A", s, perf_id, NULL, "")
    \/ \E s \in ShowIds, perf_id \in 1..MaxPerfs : DeletePerformance("A", s, perf_id)
    \/ \E today \in Dates : Dashboard("B", today)
    \/ \E s \in ShowIds : ArchiveShow("A", s)
    \/ \E s \in ShowIds : RestoreShow("A", s)

SpecLife == InitLoggedIn /\ [][NextLife]_vars

----------------------------------------------------------------------------
(* SpecDelete: requests on a show while the admin deletes it *)

\* the show with a grant and three saves: an empty schedule, a schedule
\* with a row, and post-show notes
DeleteSeed ==
    LET d0 == new_show_txn(EmptyDb, "A", "Gala", NULL, "", "Hall", 0)
        d1 == [d0 EXCEPT !.user_groups = ("g1" :> "all_access"),
                         !.show_group_access = {<<SyncShow, "g1">>}]
        d2 == CHOOSE d \in save_schedule_txn(d1, "A", SyncShow,
                              [rows |-> <<>>], 0) : TRUE
        d3 == CHOOSE d \in save_schedule_txn(d2, "A", SyncShow,
                              [meta |-> [load_in |-> JStr("09:00")],
                               rows |-> <<RowDoors>>], 0) : TRUE
    IN  CHOOSE d \in save_postnotes_txn(d3, "B", SyncShow,
                         [notes |-> JStr("ok")], 0) : TRUE

InitDelete ==
    /\ db = DeleteSeed
    /\ session = [u \in Users |-> LoginSession(DeleteSeed, u)]
    /\ now = 1
    /\ resp = NoResp
    /\ last_write = [s \in ShowIds |-> NoWrite]
    /\ hist_log = {LogRow(h) : h \in DeleteSeed.form_history}
    /\ procs = [u \in Editors |-> Idle]
    /\ wtx = NoTx
    /\ client_since = [u \in Users |-> EmptySince]

NextDelete ==
    \/ \E u \in Users : DeleteShow(u, SyncShow)
    \/ /\ SavesStarted < DeleteSeed.hist_seq + MaxConcSaves
       /\ StartWrite("A", "save_advance", SyncShow, ConcPayload("A"))
    \/ \E data \in NotePayloads :
          /\ SavesStarted < DeleteSeed.hist_seq + MaxConcSaves
          /\ StartWrite("A", "save_postnotes", SyncShow, data)
    \/ \E hist_id \in {1, 2} : StartRestore("B", SyncShow, hist_id)
    \/ StartRead("B", "sync_advance", SyncShow, "changed", 0)
    \/ StartRead("B", "show_heartbeat", SyncShow, "touch", NoTime)
    \/ \E u \in Editors :
          \/ save_advance_upsert(u)
          \/ save_advance_core(u)
          \/ save_advance_stamp(u)
          \/ save_advance_snapshot(u)
          \/ save_form_write(u)
          \/ save_commit(u)
          \/ restore_history_entry(u)
          \/ restore_history_replay(u)
          \/ restore_history_commit(u)
          \/ ForeignKeyFails(u)
          \/ sync_advance_changed(u)
          \/ sync_advance_cursor(u)
          \/ sync_advance_touch(u)
          \/ show_heartbeat_touch(u)
          \/ Busy(u)
          \/ Abort(u)
          \/ Return(u)

SpecDelete == InitDelete /\ [][NextDelete]_vars

----------------------------------------------------------------------------
(* SpecHeart: one show; saves and restores of every form, and heartbeats *)

MaxHeartSaves == 2    \* history rows inserted in SpecHeart

NextHeart ==
    \/ db.show_seq < SyncShow /\ NewShow("A", "Gala", NULL, "", "Hall")
    \/ \E u \in Editors :
          db.hist_seq < MaxHeartSaves
             /\ SaveAdvance(u, SyncShow, [venue |-> JStr("Foo")])
    \/ \E u \in Editors, data \in HistSchedule :
          db.hist_seq < MaxHeartSaves /\ SaveSchedule(u, SyncShow, data)
    \/ \E u \in Editors, data \in NotePayloads :
          db.hist_seq < MaxHeartSaves /\ SavePostnotes(u, SyncShow, data)
    \/ \E u \in Editors, hist_id \in 1..MaxHeartSaves :
          RestoreHistory(u, SyncShow, hist_id)
    \/ db.perf_seq < MaxDeltaPerfs
          /\ AddPerformance("B", SyncShow, "2026-01-01", "20:00")
    \/ \E u \in Editors, tab \in {"schedule", "postnotes"} :
          ShowHeartbeat(u, SyncShow, tab, "")

SpecHeart == InitLoggedIn /\ [][NextHeart]_vars

----------------------------------------------------------------------------
(* SpecCore: saves of the advance form that carry core keys *)

CorePayloads ==
    {[show_name |-> JStr("Expo"), venue |-> JStr("Foo")],
     [show_name |-> JStr("")],
     [show_date |-> JStr(""), show_time |-> JNull],
     [show_date |-> JStr("2026-01-02"), venue |-> JNull]}

MaxCoreSaves == 2     \* history rows inserted in SpecCore

NextCore ==
    \/ now < MaxFormTicks /\ Tick(1)
    \/ \E show_date \in {NULL, "2026-01-01"} :
          db.show_seq < MaxShows /\ NewShow("A", "Gala", show_date, "19:00", "Hall")
    \/ \E u \in Editors, s \in ShowIds, data \in CorePayloads :
          db.hist_seq < MaxCoreSaves /\ SaveAdvance(u, s, data)

SpecCore == InitLoggedIn /\ [][NextCore]_vars

----------------------------------------------------------------------------
(* SpecPoll: A saves the venue; B's page polls, and B saves in between *)

MaxPollSaves == 3     \* history rows inserted in SpecPoll

NextPoll ==
    \/ now < MaxTime /\ Tick(1)
    \/ db.show_seq < SyncShow /\ NewShow("A", "Gala", NULL, "", "Hall")
    \/ \E venue \in {"Foo", "Bar"} :
          db.hist_seq < MaxPollSaves
             /\ SaveAdvance("A", SyncShow, [venue |-> JStr(venue)])
    \/ db.hist_seq < MaxPollSaves
          /\ SaveAdvance("B", SyncShow, [show_time |-> JStr("20:00")])
    \/ \E data \in NotePayloads :
          db.hist_seq < MaxPollSaves /\ SavePostnotes("B", SyncShow, data)
    \/ Poll("B", SyncShow, "advance", "")

SpecPoll == InitLoggedIn /\ [][NextPoll]_vars

----------------------------------------------------------------------------
(* SpecTies: the history log at its limit, every entry of the same second *)

\* the database after new_show by A and HistoryLimit saves of venue=Foo on
\* the show, all within second 1
TiesDb ==
    LET base == new_show_txn(EmptyDb, "A", "Gala", NULL, "", "Hall", 0)
    IN  [base EXCEPT
           !.advance_data =
               InsertOrReplace(base.advance_data, AdvRow(SyncShow, "venue", "Foo", 1)),
           !.shows = StampShow(SetShowCol(base.shows, SyncShow, "venue", "Foo"),
                               SyncShow, SeedUser(HistoryLimit), 1),
           !.form_history =
               {[id |-> i, show_id |-> SyncShow, form_type |-> "advance",
                 saved_by |-> SeedUser(i), saved_at |-> 1,
                 snapshot |-> [advance_data |-> [venue |-> JStr("Foo")]]] :
                    i \in 1..HistoryLimit},
           !.hist_seq = HistoryLimit]

InitTies ==
    /\ db = TiesDb
    /\ session = [u \in Users |-> LoginSession(EmptyDb, u)]
    /\ now = 1
    /\ resp = NoResp
    /\ last_write = [s \in ShowIds |->
                       IF s = SyncShow
                       THEN [op |-> "save_advance", user |-> SeedUser(HistoryLimit),
                             at |-> 1, data |-> [venue |-> JStr("Foo")]]
                       ELSE NoWrite]
    /\ hist_log = {LogRow(h) : h \in TiesDb.form_history}
    /\ procs = <<>>
    /\ wtx = NoTx
    /\ client_since = [u \in Users |-> EmptySince]

MaxTiesInserts == 2   \* further history rows inserted in SpecTies

NextTies ==
    \/ now < 1 + MaxHistTicks /\ Tick(1)
    \/ \E u \in Editors, data \in HistAdvance :
          db.hist_seq < HistoryLimit + MaxTiesInserts /\ SaveAdvance(u, SyncShow, data)
    \/ \E data \in HistSchedule :
          db.hist_seq < HistoryLimit + MaxTiesInserts /\ SaveSchedule("A", SyncShow, data)
    \/ \E data \in NotePayloads :
          db.hist_seq < HistoryLimit + MaxTiesInserts /\ SavePostnotes("B", SyncShow, data)

SpecTies == InitTies /\ [][NextTies]_vars

----------------------------------------------------------------------------
(* SpecRevoke: A writes to a show while the admin changes A's groups and *)
(* the grants of the show                                                  *)

\* one show; A is a member of g1 (all_access) and of g2 (restricted), and
\* g2 holds a grant for the show
RevokeSeed ==
    [OneShowDb EXCEPT
        !.user_groups = ("g1" :> "all_access") @@ ("g2" :> "restricted"),
        !.user_group_members = {<<"A", "g1">>, <<"A", "g2">>},
        !.show_group_access = {<<SyncShow, "g2">>}]

InitRevoke ==
    /\ db = RevokeSeed
    /\ session = [u \in Users |-> LoginSession(RevokeSeed, u)]
    /\ now = 1
    /\ resp = NoResp
    /\ last_write = [s \in ShowIds |-> NoWrite]
    /\ hist_log = {}
    /\ procs = [u \in Editors |-> Idle]
    /\ wtx = NoTx
    /\ client_since = [u \in Users |-> EmptySince]

MaxRevokeSaves == 1   \* saves started in SpecRevoke

\* the DELETE or INSERT of a settings request waits for the write lock
NextRevoke ==
    \/ \E g \in Groups : wtx.owners = {} /\ AddGroupMember(ADMIN, g, "A")
    \/ \E g \in Groups : wtx.owners = {} /\ RemoveGroupMember(ADMIN, g, "A")
    \/ wtx.owners = {} /\ AddShowAccess(ADMIN, SyncShow, "g2")
    \/ wtx.owners = {} /\ RemoveShowAccess(ADMIN, SyncShow, "g2")
    \/ /\ SavesStarted < MaxRevokeSaves
       /\ StartWrite("A", "save_advance", SyncShow, ConcPayload("A"))
    \/ \E data \in NotePayloads :
          /\ SavesStarted < MaxRevokeSaves
          /\ StartWrite("A", "save_postnotes", SyncShow, data)
    \/ StartRestore("A", SyncShow, 1)
    \/ \E u \in Editors :
          \/ save_advance_upsert(u)
          \/ save_advance_core(u)
          \/ save_advance_stamp(u)
          \/ save_advance_snapshot(u)
          \/ save_form_write(u)
          \/ save_commit(u)
          \/ restore_history_entry(u)
          \/ restore_history_replay(u)
          \/ restore_history_commit(u)
          \/ Abort(u)
          \/ Return(u)

SpecRevoke == InitRevoke /\ [][NextRevoke]_vars

----------------------------------------------------------------------------
(* SpecFrame: two shows with rows in every table; the advance history of *)
(* show 1 is at its limit                                                *)

\* the second of the last seeded save of show 1
FrameNow == HistoryLimit
\* history rows of the seed: ids 1..3 for the other show and form types,
\* then HistoryLimit advance entries of show 1, one a second
FrameHistSeed == HistoryLimit + 3

\* two shows after save_schedule on 1, save_advance and save_postnotes on 2
\* (all by B at second 0), then HistoryLimit times save_advance on 1 by A:
\* contact=Ann at second 1, venue=Foo at the seconds 2..HistoryLimit
FrameDb ==
    LET sched == [meta |-> [load_in |-> JStr("09:00")], rows |-> <<RowDoors>>]
        d1 == CHOOSE d \in save_schedule_txn(TwoShowsDb, "B", 1, sched, 0) : TRUE
        d2 == CHOOSE d \in save_advance_txn(d1, "B", 2, [venue |-> JStr("Foo")], 0) : TRUE
        d3 == CHOOSE d \in save_postnotes_txn(d2, "B", 2, [notes |-> JStr("ok")], 0) : TRUE
        d4 == CHOOSE d \in save_advance_txn(d3, "A", 1, [contact |-> JStr("Ann")], 1) : TRUE
    IN  [d4 EXCEPT
           !.advance_data =
               InsertOrReplace(d4.advance_data, AdvRow(1, "venue", "Foo", FrameNow)),
           !.shows = StampShow(SetShowCol(d4.shows, 1, "venue", "Foo"),
                               1, "A", FrameNow),
           !.form_history = d4.form_history \cup
               {[id |-> 3 + i, show_id |-> 1, form_type |-> "advance",
                 saved_by |-> "A", saved_at |-> i,
                 snapshot |-> [advance_data |-> [venue |-> JStr("Foo")]]] :
                    i \in 2..HistoryLimit},
           !.hist_seq = FrameHistSeed]

InitFrame ==
    /\ db = FrameDb
    /\ session = [u \in Users |-> LoginSession(FrameDb, u)]
    /\ now = FrameNow
    /\ resp = NoResp
    /\ last_write = [s \in ShowIds |->
                       IF s = 1
                       THEN [op |-> "save_advance", user |-> "A", at |-> FrameNow,
                             data |-> [venue |-> JStr("Foo")]]
                       ELSE [op |-> "save_postnotes", user |-> "B", at |-> 0,
                             data |-> [notes |-> JStr("ok")]]]
    /\ hist_log = {LogRow(h) : h \in FrameDb.form_history}
    /\ procs = <<>>
    /\ wtx = NoTx
    /\ client_since = [u \in Users |-> EmptySince]

FrameAdvance == {[venue |-> JStr("Bar")], [contact |-> JNull, venue |-> JStr("Foo")]}
FrameSchedule ==
    {[rows |-> <<RowShow>>],
     [meta |-> [load_in |-> JStr("10:00")]],
     [meta |-> [doors |-> JStr("19:00")], rows |-> <<>>]}

MaxFrameSaves == 2    \* further history rows inserted in SpecFrame
MaxFrameTicks == 1    \* seconds the clock moves on in SpecFrame

NextFrame ==
    \/ now < FrameNow + MaxFrameTicks /\ Tick(1)
    \/ \E s \in ShowIds, data \in FrameAdvance :
          db.hist_seq < FrameHistSeed + MaxFrameSaves /\ SaveAdvance("A", s, data)
    \/ \E s \in ShowIds, data \in FrameSchedule :
          db.hist_seq < FrameHistSeed + MaxFrameSaves /\ SaveSchedule("A", s, data)
    \/ \E s \in ShowIds, data \in NotePayloads :
          db.hist_seq < FrameHistSeed + MaxFrameSaves /\ SavePostnotes("B", s, data)
    \/ \E s \in ShowIds : ShowHeartbeat("B", s, "advance", "venue")

SpecFrame == InitFrame /\ [][NextFrame]_vars

----------------------------------------------------------------------------
(* SpecPresence: polls and heartbeats on two shows while the clock runs *)

\* the seconds the clock of SpecPresence reaches: around the 45 s window of
\* reporting and the 60 s of pruning
TimePoints == {0, 1, 45, 46, 60, 61, 62}

InitPresence == InitWith(TwoShowsDb, [u \in Users |-> LoginSession(TwoShowsDb, u)])

NextPresence ==
    \/ \E t \in TimePoints : t > now /\ Tick(t - now)
    \/ \E s \in ShowIds, focused_field \in {"", "venue"} :
          SyncAdvance("A", s, EmptySince, "advance", focused_field)
    \/ ShowHeartbeat("B", SyncShow, "schedule", "")
    \/ ShowHeartbeat(ADMIN, SyncShow, "postnotes", "notes")

SpecPresence == InitPresence /\ [][NextPresence]_vars

----------------------------------------------------------------------------
(* Claims *)

\* the groups a user belongs to, and the shows granted to a group
GroupsOfUser(u) == {g \in DOMAIN db.user_groups : <<u, g>> \in db.user_group_members}
GrantsOf(g) == {s \in DOMAIN db.shows : <<s, g>> \in db.show_group_access}

\* C7: access resolver decision table.  For every user, get_accessible_shows
\* is ALL when the role is admin, the user has no group, or one of the
\* user's groups is all_access or admin_group; otherwise it is exactly the
\* union of the shows granted to the user's groups.  is_restricted_user is
\* true iff the user is no admin, has a group, and every group is restricted.
C7_DecisionTable ==
    \A u \in Users :
       LET gs == GroupsOfUser(u)
           admin == db.users[u].role = "admin"
           open == \E g \in gs : db.user_groups[g] \in {"all_access", "admin_group"}
       IN  /\ get_accessible_shows(db, u) =
                 IF admin \/ gs = {} \/ open
                 THEN ALL
                 ELSE Only(UNION {GrantsOf(g) : g \in gs})
           /\ is_restricted_user(db, u) <=>
                 (~admin /\ gs # {} /\ \A g \in gs : db.user_groups[g] = "restricted")
           /\ \A s \in ShowIds :
                 can_access_show(db, u, s) <=>
                    (admin \/ gs = {} \/ open \/ \E g \in gs : s \in GrantsOf(g))

\* C7 witness: A is in two restricted groups with disjoint, non-empty grants,
\* sees exactly their union, and has logged in while so (the session holds
\* the read-only flag is_restricted_user computed)
C7_Witness ==
    /\ GroupsOfUser("A") = {"g1", "g2"}
    /\ db.user_groups["g1"] = "restricted" /\ db.user_groups["g2"] = "restricted"
    /\ GrantsOf("g1") = {1} /\ GrantsOf("g2") = {2}
    /\ get_accessible_shows(db, "A") = Only({1, 2})
    /\ is_restricted_user(db, "A")
    /\ session["A"].logged_in /\ session["A"].is_restricted

----------------------------------------------------------------------------
(* Sync delta after a save *)

\* the last response is a successful sync_advance of show s with a cursor,
\* and the last write to s was a save_advance later than that cursor
SyncAfterSave(s) ==
    /\ resp.op = "sync_advance" /\ resp.status = 200 /\ resp.show = s
    /\ resp.body.since_in # EmptySince
    /\ last_write[s].op = "save_advance"
    /\ resp.body.since_in < last_write[s].at

----------------------------------------------------------------------------
(* History log *)

\* the rows ever inserted for (s, ft), and the rows the table holds
Inserted(s, ft) == {l \in hist_log : l.show_id = s /\ l.form_type = ft}
Retained(s, ft) == {LogRow(h) : h \in HistRows(db, s, ft)}

\* C3: history bound.  In every committed state reached by any interleaving
\* of save_advance, save_schedule, save_postnotes and restore_history by any
\* users, form_history holds at most 50 rows for each (show_id, form_type).
C3_HistoryBound ==
    \A s \in ShowIds, ft \in FormTypes :
       Cardinality(HistRows(db, s, ft)) <= HistoryLimit

C3_Witness ==
    /\ Cardinality(Inserted(SyncShow, "advance")) = HistoryLimit + 1
    /\ Cardinality(HistRows(db, SyncShow, "advance")) = HistoryLimit
    /\ Cardinality(HistRows(db, SyncShow, "schedule")) = 1
    /\ last_write[SyncShow].op = "restore_history"

\* C4: history retention.  After N > 50 successful saves of one form type
\* for one show exactly 50 rows remain for it, no deleted row has a later
\* saved_at than a remaining row (the N - 50 oldest by saved_at were
\* deleted), and form_history_list returns the remaining rows newest first.
C4_HistoryRetention ==
    \A s \in ShowIds, ft \in FormTypes :
       Cardinality(Inserted(s, ft)) > HistoryLimit =>
          /\ Cardinality(Retained(s, ft)) = HistoryLimit
          /\ Retained(s, ft) \subseteq Inserted(s, ft)
          /\ \A k \in Retained(s, ft), x \in Inserted(s, ft) \ Retained(s, ft) :
                x.saved_at <= k.saved_at
          /\ (/\ resp.op = "form_history_list" /\ resp.status = 200
              /\ resp.show = s /\ resp.body.form_type = ft)
             => LET e == resp.body.entries
                IN  /\ Len(e) = HistoryLimit
                    /\ {e[i].id : i \in DOMAIN e} = {k.id : k \in Retained(s, ft)}
                    /\ \A i, j \in DOMAIN e : i < j => e[i].saved_at >= e[j].saved_at

C4_Witness ==
    /\ Cardinality(Inserted(SyncShow, "advance")) = HistoryLimit + 2
    /\ {k.id : k \in Retained(SyncShow, "advance")} = 3..(HistoryLimit + 2)
    /\ resp.op = "form_history_list" /\ resp.status = 200
    /\ resp.body.form_type = "advance"
    /\ resp.body.entries[1].id = HistoryLimit + 2
    /\ resp.body.entries[HistoryLimit].id = 3

----------------------------------------------------------------------------
(* Access checks of the show endpoints *)

ShowEndpoints ==
    {"save_advance", "save_schedule", "save_postnotes", "restore_history",
     "form_history_list", "history_snapshot", "sync_advance", "show_heartbeat"}
WriteEndpoints ==
    {"save_advance", "save_schedule", "save_postnotes", "restore_history"}

\* the step is a request to one of the endpoints of eps (every request
\* leaves its response in resp; a step that repeats the response and the
\* database is no different from no step)
RequestTo(eps) ==
    /\ resp'.op \in eps
    /\ \/ db' # db
       \/ resp'.op # resp.op \/ resp'.user # resp.user \/ resp'.show # resp.show
       \/ resp'.status # resp.status \/ resp'.body # resp.body

\* C5: rejected requests change nothing.  A request to one of the eight
\* show endpoints by a user for whom can_access_show is false is rejected,
\* a save or restore request by a user whose groups are all restricted is
\* rejected, and no rejected request changes any row of the database.
C5_RejectedChangeNothing ==
    [][/\ (RequestTo(ShowEndpoints) /\ ~can_access_show(db, resp'.user, resp'.show))
          => resp'.status = 403
       /\ (RequestTo(WriteEndpoints) /\ is_restricted_user(db, resp'.user))
          => resp'.status = 403
       /\ (RequestTo(ShowEndpoints) /\ resp'.status = 403)
          => db' = db]_vars

\* C6: restricted users are write-restricted in every state.  Whenever a
\* non-admin user has at least one group and all their groups are of type
\* restricted, whatever the admin changed since the user logged in, a
\* save_advance, save_schedule, save_postnotes or restore_history request by
\* that user is rejected and changes no data.
C6_RestrictedNeverWrite ==
    [][\A u \in Users :
          (/\ db.users[u].role # "admin"
           /\ GroupsOfUser(u) # {}
           /\ \A g \in GroupsOfUser(u) : db.user_groups[g] = "restricted"
           /\ RequestTo(WriteEndpoints) /\ resp'.user = u)
          => (resp'.status = 403 /\ db' = db)]_vars

----------------------------------------------------------------------------
(* Upserts *)

\* every row of the table is the only row of its (show_id, field_key)
OneRowPerKey(tbl) ==
    \A r \in DOMAIN tbl : RowCount(tbl, r.show_id, r.field_key) = 1

\* C8: upsert uniqueness and idempotence.  After any sequence of saves,
\* restores, show creation and performance edits, advance_data,
\* schedule_meta and post_show_notes hold at most one row per
\* (show_id, field_key); after a save_advance (also one that repeats the
\* value of the save before it) each key of its payload has exactly one
\* row, holding the saved value and the updated_at of that save.
C8_UpsertUnique ==
    /\ OneRowPerKey(db.advance_data)
    /\ OneRowPerKey(db.schedule_meta)
    /\ OneRowPerKey(db.post_show_notes)
    /\ \A s \in ShowIds :
          last_write[s].op = "save_advance" =>
             \A k \in DOMAIN last_write[s].data :
                /\ RowCount(db.advance_data, s, k) = 1
                /\ AdvRow(s, k, StrOrEmpty(last_write[s].data[k]), last_write[s].at)
                      \in DOMAIN db.advance_data

\* venue=Foo saved on show 1 at second 0 and again at second 1
C8_Witness ==
    /\ \E h1, h2 \in HistRows(db, 1, "advance") :
          /\ h1.saved_at = 0 /\ h2.saved_at = 1
          /\ h1.snapshot = [advance_data |-> [venue |-> JStr("Foo")]]
          /\ h2.snapshot = h1.snapshot
    /\ last_write[1].op = "save_advance" /\ last_write[1].at = 1
    /\ last_write[1].data = [venue |-> JStr("Foo")]
    /\ RowCount(db.advance_data, 1, "venue") = 1
    /\ AdvRow(1, "venue", "Foo", 1) \in DOMAIN db.advance_data

----------------------------------------------------------------------------
(* Overlapping saves and readers *)

\* the response of reader p (of user u) is what the request returns when all
\* its statements read the one committed database d
ReadsAsOf(p, u, d) ==
    CASE p.op = "sync_advance" ->
            /\ p.fields = ChangedFields(d, u, p.show, p.since)
            /\ p.cursor = NewSince(d, p.show, p.since)
      [] p.op = "show_page" -> p.view = PageView(d, p.show)
      [] p.op = "show_heartbeat" ->
            p.view = StampOf(d, u, p.show)
      [] p.op = "form_history_list" ->
            p.view \in form_history_list(d, p.show, "advance")

\* C9: save atomicity towards readers.  A show_page, sync_advance,
\* show_heartbeat or form_history_list request that runs while saves are in
\* progress returns what one committed state of the show holds (the state
\* before a save or the state after it, never a mixture of the two), and a
\* save that ends without commit leaves the committed database as it was.
C9_ReadersSeeOneState ==
    /\ [](\A u \in DOMAIN procs :
             (procs[u].op \in ReaderOps /\ procs[u].pc = "done"
              /\ procs[u].status = 200)
             => \E d \in procs[u].snaps : ReadsAsOf(procs[u], u, d))
    /\ [][\A u \in DOMAIN procs :
             (/\ procs[u].op \in SaveOps /\ InFlight(procs[u])
              /\ procs'[u].pc = "done" /\ procs'[u].status # 200)
             => db' = db]_vars

\* C10: last write wins under concurrent saves.  The write transactions of
\* overlapping saves never run at the same time; after a save_advance has
\* committed, each key of its payload has exactly one row holding that
\* save's value (no value of the other save's payload) and
\* shows.last_saved_by is the user of that last committed save.
C10_LastWriteWins ==
    /\ Cardinality(wtx.owners) <= 1
    /\ \A s \in ShowIds :
          last_write[s].op = "save_advance" =>
             /\ \A k \in DOMAIN last_write[s].data :
                   /\ RowCount(db.advance_data, s, k) = 1
                   /\ AsDict(db.advance_data, s)[k] = StrOrEmpty(last_write[s].data[k])
             /\ db.shows[s].last_saved_by = last_write[s].user

\* A wrote its first key, B's save started and waited, both committed, B last
C10_Witness ==
    /\ procs["A"].op = "save_advance" /\ procs["A"].pc = "done"
    /\ procs["A"].status = 200
    /\ procs["B"].op = "save_advance" /\ procs["B"].pc = "done"
    /\ procs["B"].status = 200 /\ procs["B"].overlap
    /\ last_write[SyncShow].user = "B"
    /\ AsDict(db.advance_data, SyncShow)["venue"] = "Bar"
    /\ AsDict(db.advance_data, SyncShow)["show_time"] = "20:00"
    /\ db.shows[SyncShow].last_saved_by = "B"
    /\ Cardinality(HistRows(db, SyncShow, "advance")) = 2

----------------------------------------------------------------------------
(* Restore *)

\* the advance_data part of the snapshot the last write of show s replayed
RestoredAdvance(s) == SnapGet(last_write[s].data, "advance_data")

\* C11: restore replay.  After restore_history of an advance entry whose
\* snapshot holds advance_data {k: v}, the live advance field k of the show
\* holds v (as text, None as ''), whatever was saved to k after the snapshot
\* was taken, and the show's last_saved_by is the restoring user and its
\* last_saved_at the time of the restore.
C11_RestoreReplay ==
    \A s \in DOMAIN db.shows :
       (last_write[s].op = "restore_history"
        /\ "advance_data" \in DOMAIN last_write[s].data) =>
          /\ \A k \in DOMAIN RestoredAdvance(s) :
                /\ RowCount(db.advance_data, s, k) = 1
                /\ AsDict(db.advance_data, s)[k] = StrOrEmpty(RestoredAdvance(s)[k])
          /\ db.shows[s].last_saved_by = last_write[s].user
          /\ db.shows[s].last_saved_at = last_write[s].at

\* venue=Foo was saved, then venue=null by the other editor, then the first
\* entry was restored a second later: venue is Foo again
C11_Witness ==
    /\ SyncShow \in DOMAIN db.shows
    /\ last_write[SyncShow].op = "restore_history"
    /\ last_write[SyncShow].user = "B" /\ last_write[SyncShow].at = 1
    /\ "advance_data" \in DOMAIN last_write[SyncShow].data
    /\ RestoredAdvance(SyncShow) = [venue |-> JStr("Foo")]
    /\ \E h \in db.form_history :
          /\ h.show_id = SyncShow /\ h.form_type = "advance" /\ h.saved_by = "A"
          /\ h.saved_at = 0 /\ h.snapshot.advance_data["venue"] = JNull
          /\ \E g \in db.form_history : g.id < h.id /\ g.snapshot = last_write[SyncShow].data
    /\ AsDict(db.advance_data, SyncShow)["venue"] = "Foo"
    /\ db.shows[SyncShow].last_saved_by = "B"
    /\ db.shows[SyncShow].last_saved_at = 1

\* the payload a live save stored in history entry h
StoredPayload(h) ==
    CASE h.form_type = "advance" -> SnapGet(h.snapshot, "advance_data")
      [] h.form_type = "schedule" -> h.snapshot
      [] h.form_type = "postnotes" -> SnapGet(h.snapshot, "notes_data")

\* the live save of the payload of entry h through the endpoint of its form
LiveSave(d, u, h, t) ==
    CASE h.form_type = "advance" ->
            save_advance_txn(d, u, h.show_id, StoredPayload(h), t)
      [] h.form_type = "schedule" ->
            save_schedule_txn(d, u, h.show_id, StoredPayload(h), t)
      [] h.form_type = "postnotes" ->
            save_postnotes_txn(d, u, h.show_id, StoredPayload(h), t)

\* the live data of a database: the four form tables and the shows' own
\* columns
LiveData(d) ==
    [advance_data |-> d.advance_data, schedule_meta |-> d.schedule_meta,
     schedule_rows |-> d.schedule_rows, post_show_notes |-> d.post_show_notes,
     shows |-> [s \in DOMAIN d.shows |->
                  [name |-> d.shows[s].name, show_date |-> d.shows[s].show_date,
                   show_time |-> d.shows[s].show_time, venue |-> d.shows[s].venue,
                   last_saved_by |-> d.shows[s].last_saved_by,
                   last_saved_at |-> d.shows[s].last_saved_at]]]

\* C12: restore equals live save on live data.  For every history entry of
\* a show, restoring it leaves advance_data, schedule_meta, schedule_rows,
\* post_show_notes and the shows' name, show_date, show_time, venue and
\* last_saved_by/at as a live save of the entry's stored payload by the same
\* user at the same time would leave them.
C12_RestoreEqualsSave ==
    \A h \in db.form_history, u \in Editors :
       {LiveData(d2) : d2 \in restore_history_txn(db, u, h.show_id, h, now)}
          = {LiveData(d2) : d2 \in LiveSave(db, u, h, now)}

----------------------------------------------------------------------------
(* Schedule *)

\* the schedule_rows of show s
SchedOf(d, s) ==
    [r \in {x \in DOMAIN d.schedule_rows : x.show_id = s} |-> d.schedule_rows[r]]

\* C13: schedule replace-all.  After a save_schedule or a schedule restore
\* whose payload carries a rows list L, the show's schedule_rows are exactly
\* the entries of L with sort_order 0..len(L)-1 in the order of L, no row of
\* before remaining; and in every state the sort_order values of a show are
\* exactly 0..n-1, each once.
C13_ScheduleReplaceAll ==
    \A s \in DOMAIN db.shows :
       /\ (/\ last_write[s].op \in {"save_schedule", "restore_history"}
           /\ "rows" \in DOMAIN last_write[s].data) =>
             LET L == last_write[s].data["rows"]
             IN  /\ BagCardinality(SchedOf(db, s)) = Len(L)
                 /\ \A i \in DOMAIN L :
                       /\ SchedRow(s, i - 1, L[i]) \in DOMAIN SchedOf(db, s)
                       /\ SchedOf(db, s)[SchedRow(s, i - 1, L[i])] = 1
       /\ LET n == BagCardinality(SchedOf(db, s))
          IN  /\ \A r \in DOMAIN SchedOf(db, s) : r.sort_order \in 0..(n - 1)
              /\ \A i \in 0..(n - 1) :
                    BagCardinality([r \in {x \in DOMAIN SchedOf(db, s) :
                                              x.sort_order = i} |->
                                       SchedOf(db, s)[r]]) = 1

\* [Doors, Show] was saved, then [Show]: one row, Show, with sort_order 0
C13_Witness ==
    /\ SyncShow \in DOMAIN db.shows
    /\ last_write[SyncShow].op = "save_schedule"
    /\ last_write[SyncShow].data = [rows |-> <<RowShow>>]
    /\ \E h \in db.form_history :
          /\ h.show_id = SyncShow /\ h.form_type = "schedule"
          /\ h.snapshot = [rows |-> <<RowDoors, RowShow>>]
          /\ h.id = db.hist_seq - 1
    /\ DOMAIN SchedOf(db, SyncShow) = {SchedRow(SyncShow, 0, RowShow)}
    /\ SchedOf(db, SyncShow)[SchedRow(SyncShow, 0, RowShow)] = 1

\* the schedule [Doors, Show] restored over a later save of [Show]
C13_WitnessRestore ==
    /\ SyncShow \in DOMAIN db.shows
    /\ last_write[SyncShow].op = "restore_history"
    /\ last_write[SyncShow].data = [rows |-> <<RowDoors, RowShow>>]
    /\ \E h \in db.form_history :
          h.show_id = SyncShow /\ h.snapshot = [rows |-> <<RowShow>>]
    /\ BagCardinality(SchedOf(db, SyncShow)) = 2

----------------------------------------------------------------------------
(* Presence *)

TouchEndpoints == {"sync_advance", "show_heartbeat"}

\* the step is a sync_advance or show_heartbeat that committed
Touched == RequestTo(TouchEndpoints) /\ resp'.status = 200

\* the rows of active_sessions of user v on show x
PresenceRows(d, v, x) ==
    [r \in {y \in DOMAIN d.active_sessions : y.user_id = v /\ y.show_id = x} |->
        d.active_sessions[r]]

\* C14: touch and presence expiry.  After a sync_advance or show_heartbeat
\* of user u on show s has committed, active_sessions holds exactly one row
\* for (u, s), with the submitted tab and focused field (none when empty)
\* and last_seen = now; at most one row for every (user, show); no row last
\* seen more than 60 seconds ago; and every row of another pair that was
\* seen at most 60 seconds ago is as it was.
C14_TouchAndExpiry ==
    [][Touched =>
         LET u == resp'.user
             s == resp'.show
             mine == [user_id |-> u, show_id |-> s, tab |-> resp'.body.tab_in,
                      focused_field |-> OrNone(resp'.body.field_in),
                      last_seen |-> now]
         IN  /\ DOMAIN PresenceRows(db', u, s) = {mine}
             /\ \A v \in Users, x \in ShowIds :
                   BagCardinality(PresenceRows(db', v, x)) <= 1
             /\ \A r \in DOMAIN db'.active_sessions : now - r.last_seen <= PresenceTTL
             /\ \A r \in DOMAIN db.active_sessions :
                   (~(r.user_id = u /\ r.show_id = s)
                    /\ now - r.last_seen <= PresenceTTL)
                   => /\ r \in DOMAIN db'.active_sessions
                      /\ db'.active_sessions[r] = db.active_sessions[r]]_vars

\* B's heartbeat at second 61: A's row of second 1 (60 seconds old) is kept
\* and nothing older is left
C14_Witness ==
    /\ now = 61
    /\ resp.op = "show_heartbeat" /\ resp.user = "B" /\ resp.status = 200
    /\ DOMAIN db.active_sessions =
          {[user_id |-> "B", show_id |-> SyncShow, tab |-> "schedule",
            focused_field |-> NULL, last_seen |-> 61],
           [user_id |-> "A", show_id |-> SyncShow, tab |-> "advance",
            focused_field |-> "venue", last_seen |-> 1]}

\* C15: others_active.  The active_users a sync_advance or show_heartbeat
\* returns to user u for show s are exactly the users v # u with a row for s
\* last seen less than 45 seconds ago: never the caller, never a user
\* present only on another show, never a row of 45 seconds or more (such a
\* row is stored until it is 60 seconds old, and not reported).
C15_OthersActive ==
    [][Touched =>
         resp'.body.active_users =
            {[user |-> r.user_id, tab |-> r.tab, focused_field |-> r.focused_field] :
                r \in {x \in DOMAIN db'.active_sessions :
                          /\ x.show_id = resp'.show
                          /\ x.user_id # resp'.user
                          /\ now - x.last_seen < VisibleTTL}}]_vars

\* the admin's heartbeat at second 46 reports B (seen at 45) and neither A's
\* row of second 1 on the show, which is stored, nor A's row on the other show
C15_Witness ==
    /\ now = 46
    /\ resp.op = "show_heartbeat" /\ resp.user = ADMIN /\ resp.status = 200
    /\ resp.show = SyncShow
    /\ resp.body.active_users =
          {[user |-> "B", tab |-> "schedule", focused_field |-> NULL]}
    /\ DOMAIN PresenceRows(db, ADMIN, SyncShow) =
          {[user_id |-> ADMIN, show_id |-> SyncShow, tab |-> "postnotes",
            focused_field |-> "notes", last_seen |-> 46]}
    /\ \E r \in DOMAIN PresenceRows(db, "A", SyncShow) : r.last_seen = 1
    /\ \E r \in DOMAIN PresenceRows(db, "A", 2) : r.last_seen = 46

----------------------------------------------------------------------------
(* Sync delta and cursor *)

\* the step is a sync_advance that was answered
Polled == RequestTo({"sync_advance"}) /\ resp'.status = 200

\* the advance_data rows of show s
AdvOf(d, s) == {r \in DOMAIN d.advance_data : r.show_id = s}

\* the rows of show s written after since, as a dict
Delta(d, s, since) ==
    LET rows == {r \in AdvOf(d, s) : r.updated_at > since}
    IN  [k \in {r.field_key : r \in rows} |->
            (CHOOSE r \in rows : r.field_key = k).field_value]

\* C16: sync delta.  sync_advance with a non-empty since returns as fields
\* exactly the show's advance_data rows with updated_at > since whenever the
\* show's last_saved_by is not the caller (a show never saved has no
\* last_saved_by, which is not the caller); no fields when last_saved_by is
\* the caller, and no fields when since is empty.
C16_SyncDelta ==
    [][Polled =>
         resp'.body.fields =
            IF resp'.body.since_in = EmptySince THEN <<>>
            ELSE IF LastSavedBy(db, resp'.show) = resp'.user THEN <<>>
            ELSE Delta(db, resp'.show, resp'.body.since_in)]_vars

\* C17: sync cursor.  The since a sync_advance returns is the greatest
\* updated_at of the show's advance_data rows (the since it was given when
\* the show has none), and the cursor of a page that passes back the since
\* it last received never decreases, whatever saves, restores and
\* performance edits happen in between.
C17_SyncCursor ==
    [][/\ Polled =>
            resp'.body.since =
               IF AdvOf(db, resp'.show) = {} THEN resp'.body.since_in
               ELSE Max({r.updated_at : r \in AdvOf(db, resp'.show)})
       /\ \A u \in Users : client_since'[u] >= client_since[u]]_vars

\* B's page has polled at second 0, a save and a performance edit followed
\* at second 1, and its next poll moved its cursor from 0 to 1
C17_Witness ==
    /\ now = 1
    /\ resp.op = "sync_advance" /\ resp.user = "B" /\ resp.status = 200
    /\ resp.body.since_in = 0 /\ resp.body.since = 1
    /\ client_since["B"] = 1
    /\ last_write[SyncShow].op = "update_performance"
    /\ last_write[SyncShow].at = 1
    /\ db.hist_seq >= 1

----------------------------------------------------------------------------
(* Foreign history entries *)

HistoryEndpoints == {"history_snapshot", "restore_history"}

\* the tables and the stamp a restore writes, of every show
Restorable(d) ==
    [advance_data |-> d.advance_data, schedule_meta |-> d.schedule_meta,
     schedule_rows |-> d.schedule_rows, post_show_notes |-> d.post_show_notes,
     shows |-> d.shows]

\* C18: NotFound for foreign history entries.  For a user who can access
\* show S and is not read-only, history_snapshot(S, e) and
\* restore_history(S, e) with an entry id e that does not exist or that is
\* an entry of another show answer 404, not 403 and not 200, and such a
\* restore_history changes no field row, schedule row or stamp of any show.
C18_ForeignEntryNotFound ==
    [][(/\ RequestTo(HistoryEndpoints)
        /\ can_access_show(db, resp'.user, resp'.show)
        /\ ~is_restricted_user(db, resp'.user)
        /\ ~\E h \in db.form_history :
              h.id = resp'.body.hist_id /\ h.show_id = resp'.show)
       => /\ resp'.status = 404
          /\ Restorable(db') = Restorable(db)]_vars

\* entry 1 is a schedule of show 2 with rows; restore_history(show 1, 1) was
\* answered 404 and show 1 has no schedule row and no stamp
C18_Witness ==
    /\ resp.op = "restore_history" /\ resp.user = "B" /\ resp.show = SyncShow
    /\ resp.status = 404 /\ resp.body.hist_id = 1
    /\ \E h \in db.form_history :
          /\ h.id = 1 /\ h.show_id = 2
          /\ h.snapshot = [rows |-> <<RowDoors, RowShow>>]
    /\ BagCardinality(SchedOf(db, SyncShow)) = 0
    /\ BagCardinality(SchedOf(db, 2)) = 2
    /\ db.shows[SyncShow].last_saved_by = NULL

----------------------------------------------------------------------------
(* Show lifecycle *)

\* the performances of show s
PerfsOf(d, s) == {p \in d.show_performances : p.show_id = s}

\* every performance of the show has a date before today, or the show has
\* no performance and its show_date is set and before today
PastShow(d, s, today) ==
    IF PerfsOf(d, s) # {}
    THEN \A p \in PerfsOf(d, s) :
            p.perf_date # NULL /\ DayOf(p.perf_date) < DayOf(today)
    ELSE /\ d.shows[s].show_date # NULL
         /\ DayOf(d.shows[s].show_date) < DayOf(today)

\* C19: show lifecycle.  A show's status changes from archived to active
\* only through restore_show; auto_archive_past_shows (run by the dashboard)
\* changes a show from active to archived exactly when every one of its
\* performances has a date before today (without performances: when its
\* show_date is set and before today), changes the status of no other show
\* and never changes archived to active.
C19_ShowLifecycle ==
    [][/\ \A s \in DOMAIN db.shows \cap DOMAIN db'.shows :
             (db.shows[s].status = "archived" /\ db'.shows[s].status = "active")
             => (resp'.op = "restore_show" /\ resp'.show = s)
       /\ RequestTo({"dashboard"}) =>
             /\ DOMAIN db'.shows = DOMAIN db.shows
             /\ \A s \in DOMAIN db.shows :
                   db'.shows[s].status =
                      IF db.shows[s].status = "active"
                         /\ PastShow(db, s, resp'.body.today)
                      THEN "archived" ELSE db.shows[s].status]_vars

\* the dashboard of 2026-01-02 archived show 1, whose only performance was
\* on 2026-01-01, and left show 2 active, which has one of 2026-01-02 or
\* one without a date
C19_Witness ==
    /\ resp.op = "dashboard" /\ resp.body.today = "2026-01-02"
    /\ DOMAIN db.shows = {1, 2}
    /\ db.shows[1].status = "archived"
    /\ {p.perf_date : p \in PerfsOf(db, 1)} = {"2026-01-01"}
    /\ db.shows[2].status = "active"
    /\ PerfsOf(db, 2) # {}

----------------------------------------------------------------------------
(* Cascading delete *)

\* the shows that rows of the dependent tables reference
Referenced(d) ==
    {r.show_id : r \in DOMAIN d.advance_data} \cup
    {r.show_id : r \in DOMAIN d.schedule_rows} \cup
    {r.show_id : r \in DOMAIN d.schedule_meta} \cup
    {r.show_id : r \in DOMAIN d.post_show_notes} \cup
    {h.show_id : h \in d.form_history} \cup
    {x[1] : x \in d.show_group_access} \cup
    {r.show_id : r \in DOMAIN d.active_sessions}

\* C20: cascading delete.  A show row is removed only by delete_show, run
\* by a session whose role is admin; and in every committed state no row of
\* advance_data, schedule_rows, schedule_meta, post_show_notes,
\* form_history, show_group_access or active_sessions references a show
\* that is gone, whatever save, restore, sync or heartbeat was in flight
\* when the delete committed and completes afterwards.
C20_CascadingDelete ==
    [][/\ DOMAIN db.shows \ DOMAIN db'.shows # {}
          => /\ resp'.op = "delete_show" /\ resp'.status = 302
             /\ session[resp'.user].user_role = "admin"
             /\ DOMAIN db.shows \ DOMAIN db'.shows = {resp'.show}
       /\ Referenced(db') \subseteq DOMAIN db'.shows]_vars

\* the show is gone; A's save_advance had passed get_show_or_404 and failed
\* on its first INSERT, B's restore of the empty schedule went through
C20_Witness ==
    /\ db.show_seq = 1 /\ DOMAIN db.shows = {}
    /\ resp.op = "delete_show" /\ resp.status = 302
    /\ procs["A"].op = "save_advance" /\ procs["A"].pc = "done"
    /\ procs["A"].status = 500 /\ procs["A"].view = "IntegrityError"
    /\ procs["B"].op = "restore_history" /\ procs["B"].pc = "done"
    /\ procs["B"].status = 200 /\ procs["B"].hist_id = 1
    /\ last_write[SyncShow].op = "restore_history"
    /\ Referenced(db) = {}

----------------------------------------------------------------------------
(* Heartbeat other_saved *)

StampingOps == {"save_advance", "save_schedule", "save_postnotes", "restore_history"}

\* last_saved_by of show s, NULL when there is no such show
SavedBy(d, s) == IF s \in DOMAIN d.shows THEN d.shows[s].last_saved_by ELSE NULL

\* C21: heartbeat other_saved.  An answered show_heartbeat by u on s returns
\* other_saved true exactly when the show's last_saved_by is set and is not
\* u.  Every successful save or restore of any form by u sets last_saved_by
\* to u, and nothing else changes it: so after a save or restore by A every
\* heartbeat by another user is told true and every heartbeat by A is not,
\* until another user saves or restores, and on a show nobody has saved it
\* is never true.
C21_HeartbeatOtherSaved ==
    [][/\ (RequestTo({"show_heartbeat"}) /\ resp'.status = 200)
          => (resp'.body.other_saved = "true"
                <=> /\ SavedBy(db, resp'.show) # NULL
                    /\ SavedBy(db, resp'.show) # resp'.user)
       /\ (RequestTo(StampingOps) /\ resp'.status = 200)
          => SavedBy(db', resp'.show) = resp'.user
       /\ \A s \in ShowIds :
             SavedBy(db', s) # SavedBy(db, s)
                => /\ resp'.op \in StampingOps /\ resp'.status = 200
                   /\ resp'.show = s /\ SavedBy(db', s) = resp'.user]_vars

\* B saved, A restored B's entry, A added nothing else: B's heartbeat is
\* told that somebody else saved
C21_Witness ==
    /\ resp.op = "show_heartbeat" /\ resp.user = "B" /\ resp.status = 200
    /\ resp.body.other_saved = "true"
    /\ last_write[SyncShow].op = "restore_history"
    /\ last_write[SyncShow].user = "A"
    /\ \E h \in db.form_history : h.saved_by = "B" /\ h.form_type = "schedule"
    /\ db.shows[SyncShow].last_saved_by = "A"

----------------------------------------------------------------------------
(* Session-cached read-only flag *)

\* the request was refused with the given error
Refused(error) == resp'.status = 403 /\ resp'.body = error

\* C22: session-cached read-only flag.  A login stores is_restricted_user of
\* that moment in the session; while the user stays logged in no step
\* changes the stored value, whatever groups the admin adds the user to or
\* removes them from; a save or restore request is refused as read-only
\* exactly when the caller has access and the stored value is true, and is
\* refused for lack of access exactly when can_access_show is false on the
\* groups and grants as they are at the request.
C22_SessionCachedReadOnly ==
    [][/\ \A u \in Users :
             /\ (~session[u].logged_in /\ session'[u].logged_in)
                   => session'[u].is_restricted = is_restricted_user(db, u)
             /\ (session[u].logged_in /\ session'[u].logged_in)
                   => session'[u].is_restricted = session[u].is_restricted
       /\ RequestTo(WriteEndpoints)
          => /\ Refused("Access denied.")
                   <=> ~can_access_show(db, resp'.user, resp'.show)
             /\ Refused("Read-only access.")
                   <=> /\ can_access_show(db, resp'.user, resp'.show)
                       /\ session[resp'.user].is_restricted]_vars

\* A logged in before the admin put them in a restricted group that holds
\* the grant: A's save is accepted
C22_Witness ==
    /\ resp.op = "save_advance" /\ resp.user = "A" /\ resp.status = 200
    /\ session["A"].logged_in /\ ~session["A"].is_restricted
    /\ is_restricted_user(db, "A")
    /\ can_access_show(db, "A", SyncShow)

----------------------------------------------------------------------------
(* Restore records no snapshot *)

\* C23: restore records no snapshot.  A successful restore_history of any
\* form type stamps the show with the caller and the time and leaves
\* form_history as it was: no entry inserted, none pruned.
C23_RestoreNoSnapshot ==
    [][(RequestTo({"restore_history"}) /\ resp'.status = 200)
          => /\ db'.form_history = db.form_history
             /\ db'.hist_seq = db.hist_seq
             /\ hist_log' = hist_log
             /\ db'.shows[resp'.show].last_saved_by = resp'.user
             /\ db'.shows[resp'.show].last_saved_at = now]_vars

\* entry 1 (venue Foo) was restored over entry 2 (venue cleared): the
\* newest advance entry says the venue is empty, the live row says Foo
C23_Witness ==
    /\ resp.op = "restore_history" /\ resp.status = 200 /\ resp.body.hist_id = 1
    /\ \E h \in db.form_history :
          /\ h.id = 2 /\ h.show_id = SyncShow /\ h.form_type = "advance"
          /\ h.snapshot.advance_data.venue = JNull
    /\ db.hist_seq = 2
    /\ AsDict(db.advance_data, SyncShow)["venue"] = "Foo"

----------------------------------------------------------------------------
(* Core-key mirroring *)

\* the column of shows that mirrors a core key
CoreCols == [show_name |-> "name", show_date |-> "show_date",
             show_time |-> "show_time", venue |-> "venue"]

\* the column of the show holds the submitted value, and so does the
\* advance_data row (a NULL column and an empty text are taken to agree)
Mirrored(d, s, data, k) ==
    /\ TextOrEmpty(d.shows[s][CoreCols[k]]) = StrOrEmpty(data[k])
    /\ AsDict(d.advance_data, s)[k] = StrOrEmpty(data[k])

\* C24: core-key mirroring.  After every successful save_advance, for each
\* of the keys show_name, show_date, show_time and venue that the payload
\* carries, the show's own column holds the value submitted for the key, as
\* the advance_data row of the key does.
C24_CoreKeyMirroring ==
    [][(RequestTo({"save_advance"}) /\ resp'.status = 200)
          => \A k \in DOMAIN last_write'[resp'.show].data \cap DOMAIN CoreCols :
                Mirrored(db', resp'.show, last_write'[resp'.show].data, k)]_vars

----------------------------------------------------------------------------
(* No lost update under continued polling *)

\* a poll of B's page that is not its first
Repolled == Polled /\ resp'.user = "B" /\ resp'.body.since_in # EmptySince

\* the poll hands over every row of the show that was written after its
\* since, or returns a cursor that still lies before the row (the rows of
\* key show_time are B's own)
PollDelivers ==
    Repolled =>
       \A r \in AdvOf(db, resp'.show) :
          (r.field_key # "show_time" /\ r.updated_at > resp'.body.since_in)
             => \/ /\ r.field_key \in DOMAIN resp'.body.fields
                   /\ resp'.body.fields[r.field_key] = r.field_value
                \/ resp'.body.since < r.updated_at

\* the rows another user's save writes lie after the cursor B's page holds
SaveDeliverable ==
    (/\ RequestTo({"save_advance"}) /\ resp'.status = 200
     /\ resp'.user # "B" /\ client_since["B"] # EmptySince)
       => \A r \in AdvOf(db', resp'.show) :
             r.field_key \in DOMAIN last_write'[resp'.show].data
                => r.updated_at > client_since["B"]

\* C25: no lost update under continued polling.  When B's page polls
\* sync_advance again and again with the cursor of the poll before, no value
\* another user's save wrote after B's first poll is passed over: a save
\* writes rows the cursor has not reached, and a poll either delivers a row
\* written after its since or leaves the cursor before it, also when B
\* saves in between and when saves and polls share a second.
C25_NoLostUpdate == [][PollDelivers /\ SaveDeliverable]_vars

----------------------------------------------------------------------------
(* Sync read consistency under a concurrent commit *)

\* the rows sync_advance owes the caller when it reads its cursor and that
\* the fields it has read do not hold
Undelivered(p, u) ==
    {r \in AdvOf(db, p.show) :
        /\ r.updated_at > p.since
        /\ SqlNe(LastSavedBy(db, p.show), u)
        /\ ~(/\ r.field_key \in DOMAIN p.fields
             /\ p.fields[r.field_key] = r.field_value)}

\* C26: sync read consistency under a concurrent commit.  Whatever commits
\* between the SELECT of the changed rows and the SELECT of
\* MAX(updated_at), the cursor sync_advance returns lies before the
\* updated_at of every row the caller was to receive and the fields do not
\* hold.
C26_SyncReadConsistency ==
    [][\A u \in DOMAIN procs :
          (/\ procs[u].op = "sync_advance"
           /\ procs[u].pc = "cursor" /\ procs'[u].pc = "touch")
             => \A r \in Undelivered(procs[u], u) :
                   procs'[u].cursor < r.updated_at]_vars

----------------------------------------------------------------------------
(* A save never prunes its own snapshot *)

\* C27: a save never prunes its own snapshot.  Right after a successful
\* save_advance, save_schedule or save_postnotes, form_history holds the
\* entry the save inserted, with the show, the form type, the saving user
\* and the submitted payload, also when the entries of the show and form
\* type that carry the same saved_at are more than the limit.
C27_OwnSnapshotKept ==
    [][(RequestTo(SaveOps) /\ resp'.status = 200)
          => \E h \in db'.form_history :
                /\ h.id = db.hist_seq + 1
                /\ h.show_id = resp'.show
                /\ h.form_type = FormOf(resp'.op)
                /\ h.saved_by = resp'.user
                /\ h.saved_at = now
                /\ StoredPayload(h) = last_write'[resp'.show].data]_vars

----------------------------------------------------------------------------
(* No write after revocation *)

\* the request of u commits its writes in this step
Commits(u) ==
    /\ procs[u].op \in WriteEndpoints /\ InFlight(procs[u])
    /\ procs'[u].pc = "done" /\ procs'[u].status = 200

\* C28: no write after revocation.  A save or restore by U commits writes
\* to show S only while U has access to S by the groups and grants of the
\* database it commits to: once a remove_show_access or remove_group_member
\* that ends U's access has committed, no request of U that passed its
\* check before commits afterwards.
C28_NoWriteAfterRevocation ==
    [][\A u \in DOMAIN procs :
          Commits(u) => can_access_show(db, u, procs[u].show)]_vars

----------------------------------------------------------------------------
(* Explicit restore is durable *)

\* restore_show has just set show s to active
JustRestored(s) ==
    /\ resp.op = "restore_show" /\ resp.show = s /\ resp.status = 302
    /\ s \in DOMAIN db.shows /\ db.shows[s].status = "active"

\* C29: explicit restore is durable.  After restore_show has set a show to
\* active, the show stays active until an archive_show or delete_show of
\* it: a dashboard load (which runs auto_archive_past_shows) that follows
\* the restore leaves it active, whatever its performance dates.
C29_RestoreDurable ==
    [][\A s \in ShowIds :
          JustRestored(s) =>
             \/ s \in DOMAIN db'.shows /\ db'.shows[s].status = "active"
             \/ resp'.op \in {"archive_show", "delete_show"} /\ resp'.show = s]_vars

----------------------------------------------------------------------------
(* Frame of a save *)

\* the two tables hold the same rows, apart from the rows InFrame allows
SameRowsExcept(t1, t2, InFrame(_)) ==
    \A r \in BagToSet(t1) \cup BagToSet(t2) :
        ~InFrame(r) => CopiesIn(r, t1) = CopiesIn(r, t2)

\* the history other than that of form ft of show s
HistExcept(d, s, ft) ==
    {h \in d.form_history : ~(h.show_id = s /\ h.form_type = ft)}

\* the step is a request to op that succeeded
SavedOk(op) == RequestTo({op}) /\ resp'.status = 200

\* C30: frame of a save.  A successful save_advance on show S changes only
\* the advance_data rows of S whose keys are in the payload, the shows row of
\* S and the advance history of S: every other advance field of S, the
\* schedule rows and meta, the post-show notes, the schedule and postnotes
\* history, the presence table and all data of every other show stay as they
\* were.  save_schedule without a rows key leaves schedule_rows unchanged and
\* without a meta key leaves schedule_meta unchanged, and the prune step of a
\* save deletes no history of another show or another form type.
C30_SaveFrame ==
    [][/\ SavedOk("save_advance") =>
             LET S == resp'.show
                 data == last_write'[S].data
             IN  /\ SameRowsExcept(db.advance_data, db'.advance_data,
                        LAMBDA r : r.show_id = S /\ r.field_key \in DOMAIN data)
                 /\ db'.schedule_rows = db.schedule_rows
                 /\ db'.schedule_meta = db.schedule_meta
                 /\ db'.post_show_notes = db.post_show_notes
                 /\ db'.active_sessions = db.active_sessions
                 /\ DOMAIN db'.shows = DOMAIN db.shows
                 /\ \A s \in DOMAIN db.shows \ {S} : db'.shows[s] = db.shows[s]
                 /\ \A s \in DOMAIN db.shows \ {S} : PerfsOf(db', s) = PerfsOf(db, s)
                 /\ HistExcept(db', S, "advance") = HistExcept(db, S, "advance")
       /\ SavedOk("save_schedule") =>
             LET data == last_write'[resp'.show].data
             IN  /\ "rows" \notin DOMAIN data => db'.schedule_rows = db.schedule_rows
                 /\ "meta" \notin DOMAIN data => db'.schedule_meta = db.schedule_meta
       /\ \A op \in {"save_advance", "save_schedule", "save_postnotes"} :
             SavedOk(op) =>
                HistExcept(db', resp'.show, FormOf(op))
                   = HistExcept(db, resp'.show, FormOf(op))]_vars

\* A's save_advance of venue alone on show 1 has pruned the advance history
\* of show 1 to its limit; the contact field of show 1, the rows of show 2,
\* the schedule history of show 1 and a presence row are there
C30_Witness ==
    /\ resp.op = "save_advance" /\ resp.status = 200 /\ resp.show = 1
    /\ DOMAIN last_write[1].data = {"venue"}
    /\ db.hist_seq > FrameHistSeed
    /\ Cardinality({h \in db.form_history :
                       h.show_id = 1 /\ h.form_type = "advance"}) = HistoryLimit
    /\ \E r \in BagToSet(db.advance_data) :
          r.show_id = 1 /\ r.field_key = "contact" /\ r.field_value = "Ann"
    /\ \E r \in BagToSet(db.advance_data) : r.show_id = 2
    /\ \E h \in db.form_history : h.show_id = 1 /\ h.form_type = "schedule"
    /\ \E h \in db.form_history : h.show_id = 2
    /\ db.schedule_rows # EmptyBag
    /\ db.active_sessions # EmptyBag

====
